---- MODULE Spec2Model ----
(***************************************************************************)
(* The reactive core of the repository: Dep (observer/dep.js), Watcher     *)
(* (observer/watcher.js), the scheduler (observer/scheduler.js), the       *)
(* reactive accessors and set (observer/index.js), the array mutators      *)
(* (observer/array.js) and the computed getter (instance/state.js).        *)
(*                                                                         *)
(* JavaScript runs one call stack at a time.  A top-level action of this   *)
(* module is one task of user code (one reactive write, one $watch, ...)   *)
(* or one step of the microtask flushSchedulerQueue; everything the task   *)
(* calls synchronously (Dep.notify, Watcher.update, a sync run, a nested   *)
(* get, queueWatcher) is computed inside the action by the operators       *)
(* below, which thread a record S holding the whole program state.  A      *)
(* function that goes on after a call it makes is written as two           *)
(* operators, the second taking the state the call returned.               *)
(***************************************************************************)
EXTENDS Integers, Sequences, FiniteSets, TLC

VARIABLES
    data,        \* root data: reactive property -> stored value (val of defineReactive)
    heap,        \* contents of the observed containers referenced from data
    subs,        \* Dep -> Dep.subs, the subscribed watcher ids in insertion order
    ws,          \* the Watcher objects, ws[id] is the watcher whose id is id (uid = Len(ws))
    queue,       \* scheduler.js queue (watcher ids)
    has,         \* scheduler.js has: id -> "true" | "null", absent = undefined
    circular,    \* scheduler.js circular: id -> count, absent = undefined
    waiting,     \* scheduler.js waiting
    flushing,    \* scheduler.js flushing
    index,       \* scheduler.js index (0-based as in the code)
    pending,     \* flushSchedulerQueue callbacks handed to nextTick and not yet run
    targetStack, \* dep.js targetStack (0 = no watcher)
    depTarget,   \* dep.js Dep.target (0 = null or undefined)
    vm,          \* the component instance: _watchers, _watcher, lifecycle flags
    pc,          \* "idle" or "flush": whether flushSchedulerQueue is on the stack
    hist         \* observation record: what the last task did (no program state)

vars == <<data, heap, subs, ws, queue, has, circular, waiting, flushing, index,
          pending, targetStack, depTarget, vm, pc, hist>>

(***************************** bounds ***************************************)
MaxWatchers == 2
MaxLen == 2
MaxEvals == 3
\* the calls of _traverse the stack has room for: more than the longest way
\* through the values of the model that ends
StackLimit == 8
\* the calls of $destroy the stack has room for
MaxDepth == 3
\* the instances made over data.obj
MaxInits == 2
\* the failed calls of get() after which a scenario goes on
MaxStale == 2

(************************** value encoding **********************************)
\* JavaScript values as integers: numbers are >= 0, the rest are codes:
\* undefined, NaN, the array data.list, the object data.obj, and one more plain
\* object (REF_ELT) that user code may put into the array.
UNDEF == 0 - 1
NAN == 0 - 2
REF_LIST == 0 - 3
REF_OBJ == 0 - 4
REF_ELT == 0 - 5
\* a plain object on which Object.preventExtensions was called
REF_SEALED == 0 - 6
\* an object literal just made ({})
REF_NEW == 0 - 7

Nums == {0, 1}
Props == {"flag", "x", "y"}
\* The reactive cells (one Dep each, closed over by defineReactive): the root
\* data properties, and the key that set() may add to the root data ("z") or
\* to the nested object ("objk" for obj.k).
Cells == {"flag", "x", "y", "list", "obj", "z", "objk"}
\* Cells plus the container Deps (Observer.dep) of data, data.list, data.obj
\* and of the plain object REF_ELT once it is observed
DepIds == Cells \cup {"obData", "obList", "obObj", "obElt"}

\* isObject(v): v !== null && typeof v === 'object'
isObject(v) == v \in {REF_LIST, REF_OBJ, REF_ELT, REF_SEALED}
\* a === b (NaN is not === to itself)
StrictEq(a, b) == a = b /\ a # NAN
\* JavaScript truthiness of a stored value
Truthy(v) == v \notin {0, UNDEF, NAN}
\* a + b on numbers
Plus(a, b) == IF a < 0 \/ b < 0 THEN NAN ELSE a + b

Last(s) == s[Len(s)]
Front(s) == SubSeq(s, 1, Len(s) - 1)
SeqToSet(s) == {s[i] : i \in 1..Len(s)}

RECURSIVE IndexOf(_, _, _)
IndexOf(s, x, i) ==
    IF i > Len(s) THEN 0
    ELSE IF s[i] = x THEN i ELSE IndexOf(s, x, i + 1)

\* the array without its element at position i (none when i = 0)
Without(arr, i) ==
    IF i = 0 THEN arr
    ELSE SubSeq(arr, 1, i - 1) \o SubSeq(arr, i + 1, Len(arr))

\* remove(arr, item): splice out the first occurrence, if any
remove(arr, item) == Without(arr, IndexOf(arr, item, 1))

\* the least element of a non-empty list of ids
Least(s) == CHOOSE a \in SeqToSet(s) : \A b \in SeqToSet(s) : a <= b

RECURSIVE SortAsc(_)
\* Array.prototype.sort((a, b) => a.id - b.id) on a list of ids
SortAsc(s) ==
    IF s = <<>> THEN <<>>
    ELSE <<Least(s)>> \o SortAsc(remove(s, Least(s)))

Bump(n) == IF n < MaxEvals THEN n + 1 ELSE MaxEvals

(************************* the state record *********************************)
\* The program state as one record, with the completion of the call being
\* computed: exc = an exception is propagating, ret = the value returned,
\* depth = the calls of $destroy on the stack.
State ==
    [data |-> data, heap |-> heap, subs |-> subs, ws |-> ws, queue |-> queue,
     has |-> has, circular |-> circular, waiting |-> waiting,
     flushing |-> flushing, index |-> index, pending |-> pending,
     targetStack |-> targetStack, depTarget |-> depTarget, vm |-> vm,
     pc |-> pc, hist |-> hist,
     exc |-> FALSE, ret |-> UNDEF, depth |-> 0]

\* What is observed of one flush: the ids queued when it began, the ids
\* queueWatcher inserted while it ran (enq) and those of them not run since
\* (owed), the ids that update() handed to queueWatcher again before it began
\* (dup), how often run() was invoked per id (counted up to RunsCap), the
\* last two queue entries taken by the loop with the ids inserted during each,
\* whether the loop was left early, the warnings given, per id the runs
\* during which the watcher was put into the queue again (requeued), and the
\* queue as the loop left it (snapshot) with the number of its entries the
\* loop had taken.
NoFlush ==
    [init |-> {}, dup |-> {}, enq |-> {}, owed |-> {}, runs |-> [x \in {} |-> 0],
     lastRun |-> [id |-> 0, ins |-> {}], prevRun |-> [id |-> 0, ins |-> {}],
     aborted |-> FALSE, warned |-> 0, requeued |-> [x \in {} |-> 0],
     snapshot |-> <<>>, taken |-> 0]

\* The state a task starts from: the per-task observations are cleared.
Begin(name, arg) ==
    [State EXCEPT !.hist.op = name, !.hist.arg = arg, !.hist.notified = <<>>,
                  !.hist.updates = <<>>, !.hist.getLog = <<>>,
                  !.hist.cbLog = <<>>, !.hist.insLog = <<>>,
                  !.hist.hooks = <<>>, !.hist.pre = <<>>,
                  !.hist.ret = UNDEF, !.hist.obLog = <<>>,
                  !.hist.trav = <<>>, !.hist.travLog = <<>>,
                  !.hist.deepLog = <<>>, !.hist.handled = <<>>,
                  !.hist.renders = <<>>, !.hist.nodeOps = <<>>,
                  !.hist.stackLog = <<>>, !.hist.toggles = <<>>,
                  !.hist.reads = <<>>, !.hist.served = <<>>,
                  !.hist.flush = IF name \in {"flushStep", "flushEnd"}
                                 THEN @ ELSE NoFlush]

\* the task with what it saw before it acted
BeginWith(name, arg, pre) == [Begin(name, arg) EXCEPT !.hist.pre = pre]

Commit(S) ==
    /\ data' = S.data
    /\ heap' = S.heap
    /\ subs' = S.subs
    /\ ws' = S.ws
    /\ queue' = S.queue
    /\ has' = S.has
    /\ circular' = S.circular
    /\ waiting' = S.waiting
    /\ flushing' = S.flushing
    /\ index' = S.index
    /\ pending' = S.pending
    /\ targetStack' = S.targetStack
    /\ depTarget' = S.depTarget
    /\ vm' = S.vm
    /\ pc' = S.pc
    /\ hist' = [S.hist EXCEPT !.escaped = S.exc]

\* return v
Return(S, v) == [S EXCEPT !.ret = v]
\* what the call made by user code returned to it
Returned(S) == [S EXCEPT !.hist.ret = S.ret]
\* throw
Throw(S) == [S EXCEPT !.exc = TRUE]

\* handleError(e, vm, info) called by watcher w: the error goes to the global
\* error handler and no further
handleError(S, w, info) ==
    [S EXCEPT !.exc = FALSE,
              !.hist.handled = Append(@, [w |-> w, info |-> info])]

(******************************* dep.js *************************************)
\* Dep.target
Target(S) == S.depTarget

\* targetStack[targetStack.length - 1], undefined for the empty stack
TopOf(stack) == IF stack = <<>> THEN 0 ELSE Last(stack)

\* targetStack.push(target); Dep.target = target
pushTarget(S, target) ==
    [S EXCEPT !.targetStack = Append(@, target),
              !.depTarget = target,
              !.hist.touchStack = Append(@, {})]

\* targetStack.pop(); Dep.target = targetStack[targetStack.length - 1]
popTarget(S) ==
    [S EXCEPT !.targetStack = Front(@),
              !.depTarget = TopOf(Front(S.targetStack)),
              !.hist.touchStack = Front(@)]

\* Kept of a call of get(), getData() or callHook() when it is left: the
\* stack it found and the stack and Dep.target it leaves, and whether an
\* exception leaves it
StackLeft(S, fn, before) ==
    [S EXCEPT !.hist.stackLog =
        Append(@, [fn |-> fn, before |-> before, after |-> S.targetStack,
                   target |-> S.depTarget, threw |-> S.exc])]

addSub(S, d, w) == [S EXCEPT !.subs[d] = Append(@, w)]

removeSub(S, d, w) == [S EXCEPT !.subs[d] = remove(@, w)]

(***************************** watcher.js ***********************************)
\* addDep once newDepIds is known not to hold the Dep
addNewDep(S, w, d) ==
    [S EXCEPT !.ws[w].newDepIds = @ \cup {d}, !.ws[w].newDeps = Append(@, d)]

addDep(S, w, d) ==
    IF d \in S.ws[w].newDepIds THEN S
    ELSE IF d \in S.ws[w].depIds THEN addNewDep(S, w, d)
    ELSE addSub(addNewDep(S, w, d), d, w)

\* Dep.prototype.depend; the observation records the Dep for the get() on top
DepDepend(S, d) ==
    IF Target(S) # 0
    THEN addDep([S EXCEPT !.hist.touchStack[Len(S.targetStack)] = @ \cup {d}],
                Target(S), d)
    ELSE S

\* the loop of cleanupDeps unsubscribing from nothing
cleanupLoop_Keep(S, w, i) == S

RECURSIVE cleanupLoop(_, _, _)
\* let i = this.deps.length; while (i--) { ... dep.removeSub(this) }
cleanupLoop(S, w, i) ==
    IF i = 0 THEN S
    ELSE cleanupLoop(IF S.ws[w].deps[i] \notin S.ws[w].newDepIds
                     THEN removeSub(S, S.ws[w].deps[i], w) ELSE S, w, i - 1)

\* cleanupDeps after its loop: depIds/newDepIds and deps/newDeps are swapped
\* and the new ones cleared
swapDeps(S, w) ==
    [S EXCEPT !.ws[w].depIds = S.ws[w].newDepIds,
              !.ws[w].newDepIds = {},
              !.ws[w].deps = S.ws[w].newDeps,
              !.ws[w].newDeps = <<>>]

cleanupDeps(S, w) == swapDeps(cleanupLoop(S, w, Len(S.ws[w].deps)), w)

RECURSIVE teardownLoop(_, _, _)
\* let i = this.deps.length; while (i--) this.deps[i].removeSub(this)
teardownLoop(S, w, i) ==
    IF i = 0 THEN S
    ELSE teardownLoop(removeSub(S, S.ws[w].deps[i], w), w, i - 1)

\* teardown of an active watcher, from the loop on
teardownDeps(S, w) ==
    [teardownLoop(S, w, Len(S.ws[w].deps)) EXCEPT !.ws[w].active = FALSE]

teardown(S, w) ==
    IF ~S.ws[w].active THEN S
    ELSE IF S.vm.isBeingDestroyed THEN teardownDeps(S, w)
    ELSE teardownDeps([S EXCEPT !.vm.watchers = remove(@, w)], w)

(***************************** scheduler.js *********************************)
MAX_UPDATE_COUNT == 100

HasGet(h, id) == IF id \in DOMAIN h THEN h[id] ELSE "undefined"
Put(f, k, v) == [x \in DOMAIN f \cup {k} |-> IF x = k THEN v ELSE f[x]]
Empty == [x \in {} |-> 0]

resetSchedulerState(S) ==
    [S EXCEPT !.index = 0, !.queue = <<>>, !.has = Empty, !.circular = Empty,
              !.waiting = FALSE, !.flushing = FALSE]

\* the insertion point without the scan: the end of the queue
InsertPos_End(q, idx, id, i) == i

RECURSIVE InsertPos(_, _, _, _)
\* let i = queue.length - 1; while (i > index && queue[i].id > watcher.id) i--
InsertPos(q, idx, id, i) ==
    IF i > idx /\ q[i + 1] > id THEN InsertPos(q, idx, id, i - 1) ELSE i

\* queue.splice(at, 0, w)
Splice(q, at, w) == SubSeq(q, 1, at) \o <<w>> \o SubSeq(q, at + 1, Len(q))

\* queueWatcher inside if (has[id] == null): has[id] = true, the push (not
\* flushing) or the splice at position at (flushing), and the nextTick unless
\* one is waiting
enqueue(S, w, at) ==
    [S EXCEPT !.has = Put(@, w, "true"),
              !.queue = IF S.flushing THEN Splice(@, at, w) ELSE Append(@, w),
              !.waiting = TRUE,
              !.pending = IF S.waiting THEN @ ELSE @ + 1,
              !.hist.insLog =
                  IF S.flushing
                  THEN Append(@, [id |-> w, at |-> at, index |-> S.index,
                                  queue |-> Splice(S.queue, at, w)])
                  ELSE @,
              !.hist.flush.enq = IF S.flushing THEN @ \cup {w} ELSE @,
              !.hist.flush.owed = IF S.flushing THEN @ \cup {w} ELSE @,
              !.hist.flush.lastRun.ins = IF S.flushing THEN @ \cup {w} ELSE @]

\* the scheduler without has: every call enqueues
queueWatcher_NoHas(S, w) ==
    enqueue(S, w, InsertPos(S.queue, S.index, w, Len(S.queue) - 1) + 1)

queueWatcher(S, w) ==
    IF HasGet(S.has, w) \in {"undefined", "null"}
    THEN enqueue(S, w, InsertPos(S.queue, S.index, w, Len(S.queue) - 1) + 1)
    ELSE IF ~S.flushing THEN [S EXCEPT !.hist.dup = @ \cup {w}] ELSE S

(******************* observer/index.js and instance/state.js ****************)
RECURSIVE get(_, _), run(_, _), update(_, _), notify(_, _), notifyLoop(_, _, _),
          reactiveSetter(_, _, _), computedGetter(_, _), Getter(_, _),
          RunSteps(_, _), DoStep(_, _), destroy(_)

\* toggleObserving(value): shouldObserve = value
toggleObserving(S, value) == [S EXCEPT !.heap.shouldObserve = value]

\* Kept of the places that depend on shouldObserve: the place (the binding
\* loop of fn, or the observe call of validateProp), whether the instance is
\* a root instance, and shouldObserve there
SeenToggle(S, fn, at, isRoot) ==
    [S EXCEPT !.hist.toggles =
        Append(@, [fn |-> fn, at |-> at, isRoot |-> isRoot,
                   val |-> S.heap.shouldObserve,
                   entry |-> S.heap.shouldObserve])]

\* hasOwn(value, '__ob__') && value.__ob__ instanceof Observer: the array and
\* the object of the root data were observed by initData
HasOb(S, v) == v \in {REF_LIST, REF_OBJ} \/ (v = REF_ELT /\ S.heap.eltOb)

\* val.__ob__.dep.id of an observed value
ObOf(val) ==
    CASE val = REF_LIST -> "obList"
      [] val = REF_OBJ -> "obObj"
      [] OTHER -> "obElt"

\* the container Dep (childOb.dep) of the value stored under property p
ChildOb(S, p) ==
    IF S.data[p] = REF_LIST THEN "obList"
    ELSE IF S.data[p] = REF_OBJ THEN "obObj"
    ELSE IF S.data[p] = REF_ELT /\ S.heap.eltOb THEN "obElt" ELSE "none"

RECURSIVE dependArray(_, _, _, _)
\* dependArray(value): for each element e, e && e.__ob__ &&
\* e.__ob__.dep.depend(), then if (Array.isArray(e)) dependArray(e); the only
\* array is the list, so an array element is the list itself and the call
\* nests until the stack is full (RangeError), which ends every loop under it
dependArray(S, a, i, depth) ==
    IF S.exc \/ i > Len(a) THEN S
    ELSE IF depth > StackLimit THEN Throw(S)
    ELSE dependArray(
             IF a[i] = REF_LIST
             THEN dependArray(DepDepend(S, ObOf(a[i])), S.heap.list, 1,
                              depth + 1)
             ELSE IF HasOb(S, a[i]) THEN DepDepend(S, ObOf(a[i])) ELSE S,
             a, i + 1, depth)

\* reactiveGetter after childOb.dep.depend(): if (Array.isArray(value))
\* dependArray(value)
dependElements(S, p) ==
    IF S.data[p] = REF_LIST THEN dependArray(S, S.heap.list, 1, 1) ELSE S

\* reactiveGetter after dep.depend(): if (childOb) { childOb.dep.depend() ... }
dependChild(S, p) ==
    IF ChildOb(S, p) = "none" THEN S
    ELSE dependElements(DepDepend(S, ChildOb(S, p)), p)

\* defineReactive's reactiveGetter for root data property p
reactiveGetter(S, p) ==
    IF Target(S) = 0 THEN Return(S, S.data[p])
    ELSE Return(dependChild(DepDepend(S, p), p), S.data[p])

\* a property that set() may have added to the object target: its accessor
\* once it is reactive, the stored value or undefined otherwise
ReadDyn(S, target, key) ==
    IF S.heap.dyn[target] = "reactive" THEN reactiveGetter(S, key)
    ELSE IF S.heap.dyn[target] = "plain" THEN Return(S, S.data[key])
    ELSE Return(S, UNDEF)

\* observe returns ob: the calls on objects are kept, with the Observer
\* returned told by its number among those made for the object (0 = none)
Observed(S, v, ob) ==
    [S EXCEPT !.hist.obLog = Append(@, [v |-> v, ob |-> ob])]

\* new Observer(value): def(value, '__ob__', this); the object has no keys to
\* walk
Observer(S, v) ==
    [S EXCEPT !.heap.eltOb = IF v = REF_ELT THEN TRUE ELSE @,
              !.heap.obCount[v] = Bump(@)]

\* observe that makes an Observer without looking for __ob__
observe_Always(S, v) ==
    IF ~isObject(v) THEN S
    ELSE IF v # REF_SEALED
    THEN Observed(Observer(S, v), v, Bump(S.heap.obCount[v]))
    ELSE Observed(S, v, 0)

\* observe(value): the Observer the value has, or a new one, while
\* shouldObserve is true, for an array or plain object that is extensible
observe(S, v) ==
    IF ~isObject(v) THEN S
    ELSE IF HasOb(S, v) THEN Observed(S, v, S.heap.obCount[v])
    ELSE IF S.heap.shouldObserve /\ v # REF_SEALED
    THEN Observed(Observer(S, v), v, Bump(S.heap.obCount[v]))
    ELSE Observed(S, v, 0)

\* the setter comparing with === alone
reactiveSetter_NoNaN(S, p, newVal) ==
    IF StrictEq(newVal, S.data[p]) THEN S
    ELSE notify([S EXCEPT !.data[p] = newVal], p)

\* defineReactive's reactiveSetter for root data property p
reactiveSetter(S, p, newVal) ==
    IF \/ StrictEq(newVal, S.data[p])
       \/ (~StrictEq(newVal, newVal) /\ ~StrictEq(S.data[p], S.data[p]))
    THEN S
    ELSE notify(observe([S EXCEPT !.data[p] = newVal], newVal), p)

(******************************* dep.js *************************************)
\* Dep.prototype.notify with config.async = true (the subs are not sorted)
notify(S, d) ==
    notifyLoop([S EXCEPT !.hist.notified = Append(@, d)], S.subs[d], 1)

\* for (let i = 0, l = subs.length; i < l; i++) subs[i].update(), over the
\* copy of subs taken first
notifyLoop(S, snapshot, i) ==
    IF i > Len(snapshot) \/ S.exc THEN S
    ELSE notifyLoop(update(S, snapshot[i]), snapshot, i + 1)

(***************************** watcher.js ***********************************)
\* get up to the call of the getter: pushTarget(this)
getEnter(S, w) ==
    pushTarget([S EXCEPT
                   !.hist.evals[w] = IF S.ws[w].lazy THEN Bump(@) ELSE @,
                   !.hist.sinceNotify[w] = IF S.ws[w].lazy THEN Bump(@) ELSE @],
               w)

\* The values held by the observed container v: the elements of the array,
\* the value of the reactive property k of the object
Held(S, v) ==
    IF v = REF_LIST THEN SeqToSet(S.heap.list)
    ELSE IF v = REF_OBJ /\ S.heap.dyn["obj"] = "reactive"
    THEN {S.data["objk"]} ELSE {}

RECURSIVE Reached(_, _)
\* the observed objects and arrays reached from those of vs through observed
\* objects and arrays
Reached(S, vs) ==
    IF \A v \in vs : \A u \in Held(S, v) : HasOb(S, u) => u \in vs THEN vs
    ELSE Reached(S, vs \cup {u \in UNION {Held(S, v) : v \in vs} : HasOb(S, u)})

\* the Deps of the reactive properties reachable from value through observed
\* objects and arrays: the object of the model has its property k
ReachableDeps(S, value) ==
    IF HasOb(S, value) /\ REF_OBJ \in Reached(S, {value})
       /\ S.heap.dyn["obj"] = "reactive"
    THEN {"objk"} ELSE {}

\* what get() of a deep watcher leaves: the value returned and the Deps of
\* ReachableDeps whose subs do not hold the watcher
DeepSeen(S, w, value) ==
    [w |-> w, value |-> value, stale |-> Last(S.hist.travLog).before,
     missing |-> {d \in ReachableDeps(S, value) : w \notin SeqToSet(S.subs[d])}]

\* get after its finally block: the value is returned, or the exception goes
\* on unless the watcher is a user watcher (handleError)
getReturn(S, w, threw, value, touched, dirty, self) ==
    [S EXCEPT !.ret = value,
              !.exc = threw /\ ~S.ws[w].user,
              !.hist.errors = IF threw /\ S.ws[w].user THEN Bump(@) ELSE @,
              !.hist.handled = IF threw /\ S.ws[w].user
                               THEN Append(@, [w |-> w, info |-> "getter"])
                               ELSE @,
              !.hist.deepLog = IF S.ws[w].deep
                               THEN Append(@, DeepSeen(S, w, value)) ELSE @,
              !.hist.lastRead[w] = touched,
              !.hist.everRead[w] = @ \cup touched,
              !.hist.getLog = Append(@, [w |-> w, touched |-> touched,
                                        deps |-> SeqToSet(S.ws[w].deps),
                                        threw |-> threw, dirty |-> dirty,
                                        self |-> self, value |-> value,
                                        active |-> S.ws[w].active])]

(***************************** traverse.js **********************************)
\* _traverse past its returns: seen.add(depId) if the value has an Observer;
\* the values the loops are entered for are kept
Descend(S, val) ==
    [S EXCEPT !.heap.seen = IF HasOb(S, val) THEN @ \cup {ObOf(val)} ELSE @,
              !.hist.trav = Append(@, val)]

RECURSIVE _traverse(_, _, _), traverseItems(_, _, _)

\* _traverse(val[keys[i]], seen) with the value the accessor returned
traverseRead(S, depth) == _traverse(S, S.ret, depth + 1)

\* the loops of _traverse.  The array is data.list; the observed object has
\* the key k once set() added it; the fresh object has no keys; the
\* non-extensible object has the plain key k.
traverseLoop(S, val, depth) ==
    CASE val = REF_LIST -> traverseItems(S, Len(S.heap.list), depth)
      [] val = REF_OBJ /\ S.heap.dyn["obj"] # "absent" ->
             traverseRead(ReadDyn(S, "obj", "objk"), depth)
      [] val = REF_SEALED -> _traverse(S, S.heap.sealedK, depth + 1)
      [] OTHER -> S

\* i = val.length; while (i--) _traverse(val[i], seen)
traverseItems(S, i, depth) ==
    IF i = 0 \/ S.exc THEN S
    ELSE traverseItems(_traverse(S, S.heap.list[i], depth + 1), i - 1, depth)

\* _traverse(val, seen) as the call number depth on the stack: a call the
\* stack has no room for throws a RangeError
_traverse(S, val, depth) ==
    IF S.exc THEN S
    ELSE IF depth > StackLimit THEN Throw(S)
    ELSE IF ~isObject(val) THEN S
    ELSE IF HasOb(S, val) /\ ObOf(val) \in S.heap.seen THEN S
    ELSE traverseLoop(Descend(S, val), val, depth)

\* traverse after _traverse(val, seenObjects): seenObjects.clear(), which an
\* exception skips.  Kept of the call: the value, the ids seenObjects held
\* when it began (before) and holds when it is left (seen), the values the
\* loops were entered for, and whether it threw.
traverseEnd(S, val, before) ==
    [S EXCEPT !.heap.seen = IF S.exc THEN @ ELSE {},
              !.hist.trav = <<>>,
              !.hist.travLog = Append(@, [val |-> val, into |-> S.hist.trav,
                                         threw |-> S.exc, before |-> before,
                                         seen |-> IF S.exc THEN S.heap.seen
                                                  ELSE {}])]

\* traverse(val)
traverse(S, val) ==
    traverseEnd(_traverse([S EXCEPT !.hist.trav = <<>>], val, 1), val,
                S.heap.seen)

\* if (this.deep) traverse(value); value is undefined when the getter threw
traverseDeep(S, w, value) ==
    IF S.ws[w].deep THEN traverse(S, value) ELSE S

\* get's finally block after traverse: popTarget(); this.cleanupDeps()
getFinished(S, w, threw, value, dirty, self) ==
    getReturn(cleanupDeps(popTarget(S), w), w, threw, value,
              Last(S.hist.touchStack), dirty, self)

\* get's finally block after if (this.deep) traverse(value): what traverse
\* throws leaves get with the rest of the block not done
getTraversed(S, w, threw, value, dirty, self) ==
    IF S.exc THEN S ELSE getFinished(S, w, threw, value, dirty, self)

\* get returning the cached value when the getter threw
getFinally_Keep(S, w, dirty, self) ==
    getTraversed(traverseDeep([S EXCEPT !.exc = FALSE], w,
                              IF S.exc THEN S.ws[w].value ELSE S.ret),
                 w, S.exc, IF S.exc THEN S.ws[w].value ELSE S.ret, dirty, self)

\* get from the return of the getter: the finally block
getFinally(S, w, dirty, self) ==
    getTraversed(traverseDeep([S EXCEPT !.exc = FALSE], w,
                              IF S.exc THEN UNDEF ELSE S.ret),
                 w, S.exc, IF S.exc THEN UNDEF ELSE S.ret, dirty, self)

get(S, w) ==
    StackLeft(getFinally(Getter(getEnter(S, w), w), w, S.ws[w].dirty,
                         w \in SeqToSet(S.targetStack)),
              "get", S.targetStack)

update(S, w) ==
    IF S.ws[w].lazy
    THEN [S EXCEPT !.hist.updates = Append(@, w), !.ws[w].dirty = TRUE,
                   !.hist.sinceNotify[w] = 0]
    ELSE IF S.ws[w].sync
    THEN run([S EXCEPT !.hist.updates = Append(@, w)], w)
    ELSE queueWatcher([S EXCEPT !.hist.updates = Append(@, w)], w)

\* run without the try around this.cb.call()
runCaught_Rethrow(S, w) == S

\* run after this.cb.call(): what a user watcher's callback throws is trapped
runCaught(S, w) ==
    IF S.ws[w].user /\ S.exc THEN handleError(S, w, "callback") ELSE S

\* run firing the callback only for a value that is not === the stored one
runValue_NoObject(S, w) ==
    IF S.exc THEN S
    ELSE IF ~StrictEq(S.ret, S.ws[w].value) \/ S.ws[w].deep
    THEN runCaught(
             RunSteps([S EXCEPT !.ws[w].value = S.ret,
                                !.hist.cbLog = Append(@,
                                    [w |-> w, val |-> S.ret,
                                     old |-> S.ws[w].value,
                                     active |-> S.ws[w].active])],
                      S.ws[w].cb), w)
    ELSE S

\* run after const value = this.get()
runValue(S, w) ==
    IF S.exc THEN S
    ELSE IF ~StrictEq(S.ret, S.ws[w].value) \/ isObject(S.ret) \/ S.ws[w].deep
    THEN runCaught(
             RunSteps([S EXCEPT !.ws[w].value = S.ret,
                                !.hist.cbLog = Append(@,
                                    [w |-> w, val |-> S.ret,
                                     old |-> S.ws[w].value,
                                     active |-> S.ws[w].active])],
                      S.ws[w].cb), w)
    ELSE S

run(S, w) == IF ~S.ws[w].active THEN S ELSE runValue(get(S, w), w)

\* evaluate after this.get(), without this.dirty = false
keepValue_StaysDirty(S, w) ==
    IF S.exc THEN S ELSE [S EXCEPT !.ws[w].value = S.ret]

\* evaluate after this.get(): this.value = ..., this.dirty = false
keepValue(S, w) ==
    IF S.exc THEN S
    ELSE [S EXCEPT !.ws[w].value = S.ret, !.ws[w].dirty = FALSE]

evaluate(S, w) == keepValue(get(S, w), w)

RECURSIVE WatcherDependLoop(_, _, _)
\* let i = this.deps.length; while (i--) this.deps[i].depend()
WatcherDependLoop(S, w, i) ==
    IF i = 0 THEN S
    ELSE WatcherDependLoop(DepDepend(S, S.ws[w].deps[i]), w, i - 1)

\* Watcher.prototype.depend
WatcherDepend(S, w) == WatcherDependLoop(S, w, Len(S.ws[w].deps))

(**************************** instance/state.js *****************************)
\* the computedGetter without watcher.depend()
computedDepend_NoDepend(S, w) ==
    IF S.exc THEN S ELSE Return(S, S.ws[w].value)

\* computedGetter from if (Dep.target) on
computedDepend(S, w) ==
    IF S.exc THEN S
    ELSE IF Target(S) # 0 THEN Return(WatcherDepend(S, w), S.ws[w].value)
    ELSE Return(S, S.ws[w].value)

\* what the getter of a computed property returns for the data as they are
Fresh(S, kind) ==
    IF kind = "sum" THEN Plus(S.data["x"], S.data["y"])
    ELSE IF kind = "konst" THEN 42
    ELSE UNDEF

\* the observation of a computedGetter that returned: the value and the
\* getter applied to the data
ReadSeen(S, w, wasDirty) ==
    IF S.exc THEN S
    ELSE [S EXCEPT !.hist.reads =
              Append(@, [w |-> w, val |-> S.ret, wasDirty |-> wasDirty,
                         fresh |-> Fresh(S, S.ws[w].getter)])]

\* createComputedGetter(key)'s computedGetter; w = vm._computedWatchers[key]
computedGetter(S, w) ==
    ReadSeen(computedDepend(IF S.ws[w].dirty THEN evaluate(S, w) ELSE S, w),
             w, S.ws[w].dirty)

\* vm[key] for a computed key: the computedGetter when initComputed defined
\* it, undefined otherwise
ReadComputed(S, key) ==
    IF key \in DOMAIN S.vm.computed
    THEN computedGetter(S, S.vm.computed[key])
    ELSE Return(S, UNDEF)

\* this.obj.k: the accessor of obj, then k
ReadObjK(S) == ReadDyn(reactiveGetter(S, "obj"), "obj", "objk")

\* this.$data.z: $data is vm._data itself
ReadDataZ(S) == ReadDyn(S, "root", "z")

(***************************** array.js *************************************)
\* the rank of an element under the default sort order (by string): digits
\* come before "[object Object]"
SortKey(v) == IF v = REF_ELT THEN 2 ELSE v

\* the position of the element the default sort puts first: the first of the
\* defined elements of least rank (0 when all are undefined)
FirstSorted(a) ==
    IF \A i \in 1..Len(a) : a[i] = UNDEF THEN 0
    ELSE CHOOSE j \in 1..Len(a) :
             /\ a[j] # UNDEF
             /\ \A k \in 1..Len(a) :
                    \/ a[k] = UNDEF
                    \/ SortKey(a[j]) < SortKey(a[k])
                    \/ SortKey(a[j]) = SortKey(a[k]) /\ j <= k

RECURSIVE JsSort(_)
\* Array.prototype.sort(): defined elements ascending, undefined ones last
JsSort(a) ==
    IF FirstSorted(a) = 0 THEN a
    ELSE <<a[FirstSorted(a)]>> \o JsSort(Without(a, FirstSorted(a)))

RECURSIVE Reverse(_)
Reverse(a) == IF a = <<>> THEN <<>> ELSE Append(Reverse(Tail(a)), Head(a))

Min(a, b) == IF a < b THEN a ELSE b
Max(a, b) == IF a > b THEN a ELSE b

\* Array.prototype.splice(start, deleteCount, ...items), start and
\* deleteCount clamped to the array
SpliceAt(a, st, dc, items) ==
    SubSeq(a, 1, st) \o items \o SubSeq(a, st + dc + 1, Len(a))

\* original.apply(this, args): the native method on the array contents.
\* args = [start, del, items]; push and unshift take items, splice all three.
Original(method, a, args) ==
    CASE method = "push" -> a \o args.items
      [] method = "pop" -> IF a = <<>> THEN a ELSE Front(a)
      [] method = "shift" -> IF a = <<>> THEN a ELSE Tail(a)
      [] method = "unshift" -> args.items \o a
      [] method = "splice" ->
            SpliceAt(a, Min(args.start, Len(a)),
                     Min(args.del, Len(a) - Min(args.start, Len(a))), args.items)
      [] method = "sort" -> JsSort(a)
      [] method = "reverse" -> Reverse(a)

RECURSIVE observeArray(_, _)
observeArray(S, items) ==
    IF items = <<>> THEN S
    ELSE observeArray(observe(S, Head(items)), Tail(items))

\* the arguments that are new elements: all of push and unshift, splice's from
\* the third on
Inserted(method, args) ==
    IF method \in {"push", "unshift", "splice"} THEN args.items ELSE <<>>

\* the mutator without ob.dep.notify()
mutator_NoNotify(S, method, args) ==
    observeArray([S EXCEPT !.heap.list = Original(method, @, args)],
                 Inserted(method, args))

mutator(S, method, args) ==
    notify(observeArray([S EXCEPT !.heap.list = Original(method, @, args)],
                        Inserted(method, args)),
           "obList")

Args(start, del, items) == [start |-> start, del |-> del, items |-> items]

\* arr.length = n
SetLength(a, n) ==
    IF n <= Len(a) THEN SubSeq(a, 1, n)
    ELSE a \o [i \in 1..(n - Len(a)) |-> UNDEF]

\* arr[i] = v (i is 0-based)
SetIndex(a, i, v) == [SetLength(a, Max(Len(a), i + 1)) EXCEPT ![i + 1] = v]

(************************** observer/index.js *******************************)
DynCell(target) == IF target = "root" THEN "z" ELSE "objk"
ObDep(target) == IF target = "root" THEN "obData" ELSE "obObj"

\* key in target, for target = the root data ("root") or data.obj ("obj")
KeyIn(S, target, key) ==
    IF key = DynCell(target) THEN S.heap.dyn[target] # "absent"
    ELSE target = "root" /\ key \in {"flag", "x", "y", "list", "obj"}

\* target[key] = val in user code: the reactiveSetter when key is an accessor
\* made by defineReactive, a plain store otherwise
PlainAssign(S, target, key, val) ==
    IF key = DynCell(target) /\ S.heap.dyn[target] # "reactive"
    THEN [S EXCEPT !.heap.dyn[target] = "plain", !.data[key] = val]
    ELSE reactiveSetter(S, key, val)

\* set(target, key, val) on the array data.list, key a valid index
setArray(S, key, val) ==
    mutator([S EXCEPT !.heap.list = SetLength(@, Max(Len(@), key))],
            "splice", Args(key, 1, <<val>>))

\* set without ob.dep.notify()
set_NoNotify(S, target, key, val) ==
    IF target = "list" THEN setArray(S, key, val)
    ELSE IF target = "vm"
    THEN IF key \in {"flag", "x", "y", "list", "obj"}
         THEN reactiveSetter(S, key, val)
         ELSE S
    ELSE IF KeyIn(S, target, key) THEN PlainAssign(S, target, key, val)
    ELSE IF S.heap.vmCount[target] # 0 THEN S
    ELSE [S EXCEPT !.heap.dyn[target] = "reactive", !.data[key] = val]

\* return val, unless an exception is on its way out
setReturn(S, val) == IF S.exc THEN S ELSE Return(S, val)

\* set(target, key, val) on an observed object; isVue = target is the vm
set(S, target, key, val) ==
    IF target = "list" THEN setReturn(setArray(S, key, val), val)
    ELSE IF target = "vm"
    THEN IF key \in {"flag", "x", "y", "list", "obj"}
         THEN setReturn(reactiveSetter(S, key, val), val)
         ELSE Return(S, val)
    ELSE IF KeyIn(S, target, key)
    THEN setReturn(PlainAssign(S, target, key, val), val)
    ELSE IF S.heap.vmCount[target] # 0 THEN Return(S, val)
    ELSE setReturn(notify(observe([S EXCEPT !.heap.dyn[target] = "reactive",
                                            !.data[key] = val], val),
                          ObDep(target)), val)

\* hasOwn(target, key)
hasOwn(S, target, key) == target # "vm" /\ KeyIn(S, target, key)

\* del that leaves out the test of _isVue and vmCount
del_NoGuard(S, target, key) ==
    IF target = "list" THEN mutator(S, "splice", Args(key, 1, <<>>))
    ELSE IF ~KeyIn(S, IF target = "vm" THEN "root" ELSE target, key) THEN S
    ELSE notify([S EXCEPT !.heap.dyn[IF key = "z" THEN "root" ELSE "obj"] =
                              IF key \in {"z", "objk"} THEN "absent" ELSE @,
                          !.data[key] = UNDEF],
                ObDep(IF target = "vm" THEN "root" ELSE target))

\* del(target, key) on an observed object or the vm: delete target[key]
\* leaves the key absent (the only own key del gets past its tests with is
\* the one set() added)
del(S, target, key) ==
    IF target = "list" THEN mutator(S, "splice", Args(key, 1, <<>>))
    ELSE IF target = "vm" \/ S.heap.vmCount[target] # 0 THEN S
    ELSE IF ~hasOwn(S, target, key) THEN S
    ELSE notify([S EXCEPT !.heap.dyn[target] = "absent", !.data[key] = UNDEF],
                ObDep(target))

(************************ the user functions ********************************)
\* The functions user code hands to Watcher (expOrFn), by kind:
\*   "flag", "x", "y", "list", "obj"  parsePath of a one-segment path
\*   "objk"      parsePath("obj.k")
\*   "dataz"     function () { return this.$data.z }
\*   "cond"      function () { return this.flag ? this.x : this.y }
\*   "condThrow" function () { if (this.flag) { this.x; throw e } return this.y }
\*   "condSelf"  function () { if (this.flag) { const v = this.x; this.flag = 0;
\*                                               return v } return this.y }
\*   "sum"       function () { return this.x + this.y }
\*   "konst"     function () { return 42 }
\*   "boom"      function () { this.x; throw e }
\*   "useSum"    function () { return this.sum }      (sum is a computed key)
\*   "useKonst"  function () { return this.konst }    (konst is a computed key)
\*   "useBoom"   function () { return this.boom }     (boom is a computed key)
\*   "useCond"   function () { return this.cond }     (cond is a computed key)
\*   "child"     function () { getData(function () { return this.x }, this);
\*                             return this.y }
\*   "childBoom" function () { getData(function () { this.x; throw e }, this);
\*                             return this.y }
\* the last two as a render function does that creates a component whose data
\* function reads a property of the parent

\* this.flag = 0; return v
ClearFlag(S) == Return(reactiveSetter(S, "flag", 0), S.ret)

\* the getters "cond", "condThrow", "condSelf" after this.flag was read
CondBranch(S, kind) ==
    IF ~Truthy(S.ret) THEN reactiveGetter(S, "y")
    ELSE IF kind = "cond" THEN reactiveGetter(S, "x")
    ELSE IF kind = "condThrow" THEN Throw(reactiveGetter(S, "x"))
    ELSE ClearFlag(reactiveGetter(S, "x"))

\* a + this.y
AddY(S, a) == Return(S, Plus(a, S.ret))

\* this.x + this.y after this.x was read
SumRest(S) == AddY(reactiveGetter(S, "y"), S.ret)

\* data.call(vm, vm) of the data functions of "child" and "childBoom"
DataCall(S, kind) ==
    IF kind = "childBoom" THEN Throw(reactiveGetter(S, "x"))
    ELSE reactiveGetter(S, "x")

\* getData: catch (e) { handleError(e, vm, `data()`); return {} }
getDataCatch(S) ==
    IF S.exc THEN Return(handleError(S, 0, "data()"), REF_NEW) ELSE S

\* getData(data, vm): pushTarget(); try { return data.call(vm, vm) } catch ...
\* finally { popTarget() }
getData(S, kind) ==
    StackLeft(popTarget(getDataCatch(DataCall(pushTarget(S, 0), kind))),
              "getData", S.targetStack)

GetterBody(S, kind) ==
    CASE kind \in {"flag", "x", "y", "list", "obj"} -> reactiveGetter(S, kind)
      [] kind = "objk" -> ReadObjK(S)
      [] kind = "dataz" -> ReadDataZ(S)
      [] kind \in {"cond", "condThrow", "condSelf"} ->
            CondBranch(reactiveGetter(S, "flag"), kind)
      [] kind = "sum" -> SumRest(reactiveGetter(S, "x"))
      [] kind = "konst" -> Return(S, 42)
      [] kind = "boom" -> Throw(reactiveGetter(S, "x"))
      [] kind = "useSum" -> ReadComputed(S, "sum")
      [] kind = "xSum" -> ReadComputed(reactiveGetter(S, "x"), "sum")
      [] kind = "useKonst" -> ReadComputed(S, "konst")
      [] kind = "useBoom" -> ReadComputed(S, "boom")
      [] kind = "useCond" -> ReadComputed(S, "cond")
      [] kind \in {"child", "childBoom"} ->
            reactiveGetter(getData(S, kind), "y")

\* updateComponent, the render watcher's getter, returns undefined
RenderReturn(S, render) ==
    IF render /\ ~S.exc THEN Return(S, UNDEF) ELSE S

(***************************** instance/render.js ***************************)
\* vm._vnode of the instance whose render watcher is w: null, the empty
\* VNode, the VNode a render function made of the value it read, or the one
\* the renderError option made
NoVNode == [kind |-> "null"]
createEmptyVNode == [kind |-> "empty"]
VNodeOf(v) == [kind |-> "node", text |-> v]
ErrorVNode == [kind |-> "error"]

PrevVNode(S, w) ==
    IF w = S.vm.child.renderW THEN S.vm.child.vnode ELSE S.vm.vnode

\* vm.$options.renderError of the instance: the child instance has none
RenderErrorOf(S, w) ==
    IF w = S.vm.child.renderW THEN "none" ELSE S.vm.renderError

\* _render's last statements: the result that is not a VNode gives way to
\* createEmptyVNode(); return vnode.  Kept of the call: whether render threw,
\* vm._vnode, the VNode returned and currentRenderingInstance.
renderReturn(S, w, vnode, threw) ==
    [S EXCEPT !.ret = IF vnode = NoVNode THEN createEmptyVNode ELSE vnode,
              !.hist.renders =
                  Append(@, [w |-> w, threw |-> threw, prev |-> PrevVNode(S, w),
                             vnode |-> IF vnode = NoVNode THEN createEmptyVNode
                                       ELSE vnode,
                             escaped |-> S.exc,
                             rendering |-> S.vm.rendering])]

\* finally { currentRenderingInstance = null }
renderFinally(S, w, vnode, threw) ==
    renderReturn([S EXCEPT !.vm.rendering = FALSE], w, vnode, threw)

\* _render without the finally block
renderCatch_NoFinally(S, w) ==
    IF ~S.exc THEN renderFinally(S, w, VNodeOf(S.ret), FALSE)
    ELSE IF ~S.vm.production /\ RenderErrorOf(S, w) = "vnode"
    THEN renderReturn(handleError(S, w, "render"), w, ErrorVNode, TRUE)
    ELSE IF ~S.vm.production /\ RenderErrorOf(S, w) = "throws"
    THEN renderReturn(
             handleError(handleError(S, w, "render"), w, "renderError"),
             w, PrevVNode(S, w), TRUE)
    ELSE renderReturn(handleError(S, w, "render"), w, PrevVNode(S, w), TRUE)

\* _render after render.call(vm._renderProxy, vm.$createElement): the catch
\* block hands the error to handleError and takes the VNode of the
\* renderError option (not in a production build) or vm._vnode
renderCatch(S, w) ==
    IF ~S.exc THEN renderFinally(S, w, VNodeOf(S.ret), FALSE)
    ELSE IF ~S.vm.production /\ RenderErrorOf(S, w) = "vnode"
    THEN renderFinally(handleError(S, w, "render"), w, ErrorVNode, TRUE)
    ELSE IF ~S.vm.production /\ RenderErrorOf(S, w) = "throws"
    THEN renderFinally(
             handleError(handleError(S, w, "render"), w, "renderError"),
             w, PrevVNode(S, w), TRUE)
    ELSE renderFinally(handleError(S, w, "render"), w, PrevVNode(S, w), TRUE)

\* Vue.prototype._render: currentRenderingInstance = vm, then the render
\* function, which is the getter kind of the render watcher
_render(S, w) ==
    renderCatch(GetterBody([S EXCEPT !.vm.rendering = TRUE], S.ws[w].getter),
                w)

(************************** instance/lifecycle.js ***************************)
\* Vue.prototype._update(vnode): vm._vnode = vnode
_update(S, w) ==
    IF S.exc THEN S
    ELSE IF w = S.vm.child.renderW THEN [S EXCEPT !.vm.child.vnode = S.ret]
    ELSE [S EXCEPT !.vm.vnode = S.ret]

\* updateComponent = () => { vm._update(vm._render(), hydrating) }
updateComponent(S, w) == RenderReturn(_update(_render(S, w), w), TRUE)

\* this.getter.call(vm, vm)
Getter(S, w) ==
    IF S.ws[w].render THEN updateComponent(S, w)
    ELSE GetterBody(S, S.ws[w].getter)

\* The statements of a user callback:
\*   [op |-> "assign", p, v]   this[p] = v
\*   [op |-> "toggle", p]      this[p] = 1 - this[p]
\*   [op |-> "destroy"]        this.$destroy()
\*   [op |-> "throw"]          throw e
\*   [op |-> "unwatch", v]     unwatch(), the function $watch returned for the
\*                             watcher of id v (a TypeError if $watch has not
\*                             returned it yet)
StepValue(S, st) ==
    IF st.op = "assign" THEN st.v
    ELSE IF S.data[st.p] < 0 THEN NAN ELSE 1 - S.data[st.p]

DoStep(S, st) ==
    IF st.op = "destroy" THEN destroy(S)
    ELSE IF st.op = "throw" THEN Throw(S)
    ELSE IF st.op = "read" THEN ReadComputed(S, st.p)
    ELSE IF st.op = "unwatch"
    THEN IF st.v \in 1..Len(S.ws) THEN teardown(S, st.v) ELSE Throw(S)
    ELSE reactiveSetter(S, st.p, StepValue(S, st))

RunSteps(S, steps) ==
    IF steps = <<>> \/ S.exc THEN S
    ELSE RunSteps(DoStep(S, Head(steps)), Tail(steps))

AssignStep(p, v) == [op |-> "assign", p |-> p, v |-> v]
ToggleStep(p) == [op |-> "toggle", p |-> p, v |-> 0]
DestroyStep == [op |-> "destroy", p |-> "x", v |-> 0]
ThrowStep == [op |-> "throw", p |-> "x", v |-> 0]
ReadStep(key) == [op |-> "read", p |-> key, v |-> 0]
UnwatchStep(w) == [op |-> "unwatch", p |-> "x", v |-> w]

(***************************** watcher.js ***********************************)
Options(user, lazy, sync, before) ==
    [user |-> user, lazy |-> lazy, sync |-> sync, deep |-> FALSE,
     before |-> before]

\* the fields the Watcher constructor sets before it evaluates
WatcherObject(kind, cb, opt, isRenderWatcher) ==
    [active |-> TRUE, lazy |-> opt.lazy, sync |-> opt.sync,
     user |-> opt.user, deep |-> opt.deep, before |-> opt.before,
     render |-> isRenderWatcher, dirty |-> opt.lazy,
     deps |-> <<>>, newDeps |-> <<>>, depIds |-> {}, newDepIds |-> {},
     value |-> UNDEF, getter |-> kind, cb |-> cb]

\* the constructor up to this.value = ...: vm._watcher = this for the render
\* watcher, vm._watchers.push(this), id = ++uid
Construct(S, kind, cb, opt, isRenderWatcher) ==
    [S EXCEPT !.ws = Append(@, WatcherObject(kind, cb, opt, isRenderWatcher)),
              !.vm.watchers = Append(@, Len(S.ws) + 1),
              !.vm.renderW = IF isRenderWatcher THEN Len(S.ws) + 1 ELSE @,
              !.hist.evals = Append(@, 0),
              !.hist.sinceNotify = Append(@, 0),
              !.hist.lastRead = Append(@, {}),
              !.hist.everRead = Append(@, {})]

\* this.value = this.get() done: the new watcher is what the constructor gives
FirstValue(S, id) ==
    IF S.exc THEN S ELSE [S EXCEPT !.ws[id].value = S.ret, !.ret = id]

\* this.value = this.lazy ? undefined : this.get()
Evaluated(S, id) ==
    IF S.ws[id].lazy THEN Return(S, id) ELSE FirstValue(get(S, id), id)

\* new Watcher(vm, expOrFn, cb, options, isRenderWatcher)
NewWatcher(S, kind, cb, opt, isRenderWatcher) ==
    Evaluated(Construct(S, kind, cb, opt, isRenderWatcher), Len(S.ws) + 1)

(************************* instance/lifecycle.js ****************************)
\* what a hook finds when it is called: whether the scheduler state is as
\* resetSchedulerState leaves it, the flags of the instance, vm._watchers,
\* the watchers that are active, those that some Dep holds in its subs, vmCount of the
\* root data, and the number of calls of get() the task has completed
HookSeen(S, hook) ==
    [hook |-> hook,
     reset |-> /\ S.queue = <<>> /\ S.index = 0 /\ S.has = Empty
               /\ S.circular = Empty /\ ~S.waiting /\ ~S.flushing,
     isMounted |-> S.vm.isMounted,
     isDestroyed |-> S.vm.isDestroyed,
     isBeingDestroyed |-> S.vm.isBeingDestroyed,
     renderW |-> S.vm.renderW,
     active |-> {w \in 1..Len(S.ws) : S.ws[w].active},
     subscribed |-> {w \in 1..Len(S.ws) :
                       \E d \in DepIds : \E i \in 1..Len(S.subs[d]) :
                           S.subs[d][i] = w},
     vmCount |-> S.heap.vmCount["root"],
     watchers |-> S.vm.watchers,
     gets |-> Len(S.hist.getLog)]

\* the calls of the two hooks of $destroy so far
Fired(f, hook) == IF hook \in DOMAIN f THEN [f EXCEPT ![hook] = @ + 1] ELSE f

\* callHook(vm, hook): the handlers run with no watcher as target; what they
\* throw is trapped by invokeWithErrorHandling
callHook(S, hook) ==
    StackLeft(
        popTarget([RunSteps(pushTarget([S EXCEPT !.hist.hooks =
                                                     Append(@, HookSeen(S, hook)),
                                                 !.hist.fired = Fired(@, hook)], 0),
                            S.vm.hooks[hook])
                   EXCEPT !.exc = FALSE]),
        "callHook", S.targetStack)

RECURSIVE destroyLoop(_, _)
\* let i = vm._watchers.length; while (i--) vm._watchers[i].teardown()
destroyLoop(S, i) ==
    IF i = 0 THEN S ELSE destroyLoop(teardown(S, S.vm.watchers[i]), i - 1)

\* if (vm._watcher) vm._watcher.teardown()
teardownRender(S) ==
    IF S.vm.renderW # 0 THEN teardown(S, S.vm.renderW) ELSE S

\* $destroy between its two hooks
destroyBody(S) ==
    [destroyLoop(teardownRender([S EXCEPT !.vm.isBeingDestroyed = TRUE]),
                 Len(S.vm.watchers))
     EXCEPT !.heap.vmCount["root"] = @ - 1, !.vm.isDestroyed = TRUE,
            !.hist.decs["root"] = @ + 1]

\* Vue.prototype.$destroy; a call the stack has no room for throws a
\* RangeError
destroy(S) ==
    IF S.vm.isBeingDestroyed THEN S
    ELSE IF S.depth >= MaxDepth THEN Throw(S)
    ELSE [callHook(destroyBody(callHook([S EXCEPT !.depth = @ + 1],
                                        "beforeDestroy")), "destroyed")
          EXCEPT !.depth = @ - 1]

\* mountComponent after new Watcher(...): vm._isMounted = true, mounted hook
Mounted(S) ==
    IF S.exc THEN S ELSE callHook([S EXCEPT !.vm.isMounted = TRUE], "mounted")

\* mountComponent(vm, el)
mountComponent(S, kind) ==
    Mounted(NewWatcher(callHook(S, "beforeMount"), kind, <<>>,
                       Options(FALSE, FALSE, FALSE, TRUE), TRUE))

\* A second instance made with new Vue({parent: vm, render}): initLifecycle
\* puts it into vm.$children. It has no hook handlers and no data of its own;
\* its render function reads the data of vm. The constructor of its render
\* watcher: child._watcher = this, child._watchers.push(this), id = ++uid
ChildConstruct(S, kind) ==
    [S EXCEPT !.ws = Append(@, WatcherObject(kind, <<>>,
                                Options(FALSE, FALSE, FALSE, TRUE), TRUE)),
              !.vm.child.renderW = Len(S.ws) + 1,
              !.hist.evals = Append(@, 0),
              !.hist.sinceNotify = Append(@, 0),
              !.hist.lastRead = Append(@, {}),
              !.hist.everRead = Append(@, {})]

\* mountComponent(child) after new Watcher(...): child.$vnode == null
ChildMounted(S) ==
    IF S.exc THEN S ELSE [S EXCEPT !.vm.child.isMounted = TRUE]

\* child.$mount(): mountComponent(child, el); callHook(child, hook) finds no
\* handler
mountChild(S, kind) ==
    ChildMounted(Evaluated(ChildConstruct(S, kind), Len(S.ws) + 1))

(***************************** scheduler.js *********************************)
\* the last position up to i at which the queue holds watcher w (0 if none)
LastOf(q, w, i) ==
    IF \A j \in 1..i : q[j] # w THEN 0
    ELSE CHOOSE m \in 1..i : q[m] = w /\ \A n \in 1..i : q[n] = w => n <= m

RECURSIVE callUpdatedHooks(_, _, _)
\* let i = queue.length; while (i--) { ... callHook(vm, 'updated') }
\* (the entries that are not the component's render watcher are passed over)
callUpdatedHooks(S, q, i) ==
    IF LastOf(q, S.vm.renderW, i) = 0 THEN S
    ELSE callUpdatedHooks(
             IF S.vm.isMounted /\ ~S.vm.isDestroyed
             THEN callHook(S, "updated") ELSE S,
             q, LastOf(q, S.vm.renderW, i) - 1)

\* flushSchedulerQueue from "keep copies of post queues" to its end
FlushTail(S) ==
    [callUpdatedHooks(
         resetSchedulerState([S EXCEPT !.hist.flush.snapshot = S.queue,
                                       !.hist.flush.taken =
                                           IF S.index < Len(S.queue)
                                           THEN S.index + 1 ELSE Len(S.queue)]),
         S.queue, Len(S.queue))
     EXCEPT !.pc = "idle"]

\* flushSchedulerQueue without queue.sort
FlushHead_NoSort(S) ==
    [S EXCEPT !.pending = @ - 1, !.flushing = TRUE, !.index = 0, !.pc = "flush",
              !.hist.dup = {},
              !.hist.flush = [NoFlush EXCEPT !.init = SeqToSet(S.queue),
                                             !.dup = S.hist.dup]]

\* flushSchedulerQueue up to the loop: flushing = true, queue.sort, index = 0
FlushHead(S) ==
    [S EXCEPT !.pending = @ - 1, !.flushing = TRUE, !.queue = SortAsc(@),
              !.index = 0, !.pc = "flush",
              !.hist.dup = {},
              !.hist.flush = [NoFlush EXCEPT !.init = SeqToSet(S.queue),
                                             !.dup = S.hist.dup]]

\* a before that is called after has[id] = null
before_Cleared(S, w) ==
    IF w = S.vm.child.renderW THEN S
    ELSE IF S.ws[w].before /\ S.vm.isMounted /\ ~S.vm.isDestroyed
    THEN callHook([S EXCEPT !.has = Put(@, w, "null")], "beforeUpdate") ELSE S

\* a before that calls the hook whatever the flags of the instance are
before_Always(S, w) ==
    IF S.ws[w].before THEN callHook(S, "beforeUpdate") ELSE S

\* watcher.before(): the render watcher's before of mountComponent
\* (that of the child instance calls callHook(child, 'beforeUpdate'), which
\* finds no handler)
before(S, w) ==
    IF w = S.vm.child.renderW THEN S
    ELSE IF S.ws[w].before /\ S.vm.isMounted /\ ~S.vm.isDestroyed
    THEN callHook(S, "beforeUpdate") ELSE S

\* the invocations of run() per watcher are counted up to this number
RunsCap == MAX_UPDATE_COUNT + 2

\* one more for w in a count per watcher
Counted(f, w) ==
    IF w \in DOMAIN f THEN (IF f[w] < RunsCap THEN f[w] + 1 ELSE RunsCap) ELSE 1

\* the loop takes watcher = queue[index]
Take(S, w) ==
    [S EXCEPT !.hist.flush.prevRun = S.hist.flush.lastRun,
              !.hist.flush.lastRun = [id |-> w, ins |-> {}],
              !.hist.flush.owed = @ \ {w},
              !.hist.flush.runs = Put(@, w, Counted(@, w))]

\* has[id] = null
Taken(S, w) == [S EXCEPT !.has = Put(@, w, "null")]

\* the counter starting anew each time
NextCount_Forget(S, w) == 1

\* (circular[id] || 0) + 1
NextCount(S, w) == (IF w \in DOMAIN S.circular THEN S.circular[w] ELSE 0) + 1

\* the loop body after watcher.run(): an exception leaves flushSchedulerQueue;
\* the circular-update check counts, and its break goes on with the rest of
\* the function
Checked(S, w) ==
    IF S.exc THEN [S EXCEPT !.pc = "idle"]
    ELSE IF HasGet(S.has, w) = "null" THEN [S EXCEPT !.index = @ + 1]
    ELSE IF NextCount(S, w) > MAX_UPDATE_COUNT
    THEN FlushTail([S EXCEPT !.circular = Put(@, w, NextCount(S, w)),
                             !.hist.warned = Bump(@),
                             !.hist.flush.warned = Bump(@),
                             !.hist.flush.requeued = Put(@, w, Counted(@, w))])
    ELSE [S EXCEPT !.circular = Put(@, w, NextCount(S, w)), !.index = @ + 1,
                   !.hist.flush.requeued = Put(@, w, Counted(@, w))]

\* One iteration of the loop of flushSchedulerQueue, on w = queue[index]
Iteration(S, w) == Checked(run(Taken(before(Take(S, w), w), w), w), w)

FlushBody(S) == Iteration(S, S.queue[S.index + 1])

(***************************** instance/init.js *****************************)
\* The options of an instance made by new Vue(options) after the first one:
\* which of these keys it has
OptionKeys ==
    {"inject", "props", "methods", "data", "computed", "watch", "provide", "el"}

\* What is kept of that instance: its options, the reactive properties
\* defined on it, whether vm._watchers is there (state), the watchers made for
\* it by kind, whether vm._provided is there, whether it was mounted, per
\* phase of _init what the phase found when it began (log), vm._data and
\* vm._isBeingDestroyed
NoInst ==
    [made |-> FALSE, options |-> [k \in OptionKeys |-> FALSE], reactive |-> {},
     state |-> FALSE, watchers |-> <<>>, provided |-> FALSE, log |-> <<>>,
     data |-> UNDEF, isBeingDestroyed |-> FALSE]

\* a phase begins
Phase(S, name) ==
    IF S.exc THEN S
    ELSE
    [S EXCEPT !.vm.inst.log =
        Append(@, [phase |-> name, reactive |-> S.vm.inst.reactive,
                   state |-> S.vm.inst.state,
                   watchers |-> S.vm.inst.watchers])]

\* defineReactive(obj, key, ...) for the properties keys of the instance
Defined(S, keys) ==
    IF S.exc THEN S ELSE [S EXCEPT !.vm.inst.reactive = @ \cup keys]

\* initRender: defineReactive(vm, '$attrs', ...), defineReactive(vm,
\* '$listeners', ...)
initRender(S) == Defined(S, {"$attrs", "$listeners"})

\* callHook(vm, hook) of an instance without a handler for the hook
instHook(S, hook) == Phase(S, hook)

\* an option of the instance that the options given may leave out
OptionOf(S, key, default) ==
    IF key \in DOMAIN S.vm.inst.options THEN S.vm.inst.options[key]
    ELSE default

\* !vm.$parent
IsRoot(S) == ~OptionOf(S, "parent", FALSE)

\* The props of the instance, by what validateProp finds for each:
\*   "given"    propsData holds the observed object of the parent's data
\*   "literal"  propsData holds an object the parent's render function made
\*   "factory"  no value, and a default function that returns a new object
\*   "absent"   no value and no default
\*   "throws"   no value, and a default function that throws
PropKinds == {"given", "literal", "factory", "absent", "throws"}

\* getPropDefaultValue: def.call(vm), or undefined without a default
getPropDefaultValue(S, kind) ==
    CASE kind = "factory" -> Return(S, REF_ELT)
      [] kind = "throws" -> Throw(S)
      [] OTHER -> Return(S, UNDEF)

\* validateProp from const prevShouldObserve = shouldObserve on:
\* toggleObserving(true); observe(value); toggleObserving(prevShouldObserve)
validateDefault(S, isRoot) ==
    IF S.exc THEN S
    ELSE Return(toggleObserving(
                    observe(SeenToggle(toggleObserving(S, TRUE), "validateProp",
                                       "observe", isRoot), S.ret),
                    S.heap.shouldObserve),
                S.ret)

\* validateProp up to return value
validateValue(S, kind, isRoot) ==
    CASE kind = "given" -> Return(S, REF_OBJ)
      [] kind = "literal" -> Return(S, REF_ELT)
      [] OTHER -> validateDefault(getPropDefaultValue(S, kind), isRoot)

\* kept when validateProp is left: shouldObserve then and when it was entered
validateExit(S, entry, isRoot) ==
    [S EXCEPT !.hist.toggles =
        Append(@, [fn |-> "validateProp", at |-> "exit", isRoot |-> isRoot,
                   val |-> S.heap.shouldObserve, entry |-> entry])]

\* validateProp(key, propOptions, propsData, vm)
validateProp(S, kind, isRoot) ==
    validateExit(validateValue(S, kind, isRoot), S.heap.shouldObserve, isRoot)

\* defineReactive(props, key, value): let childOb = !shallow && observe(val)
bindProp(S) == IF S.exc THEN S ELSE Defined(observe(S, S.ret), {"prop"})

RECURSIVE propsLoop(_, _, _)
\* for (const key in propsOptions): validateProp, then defineReactive
propsLoop(S, kinds, i) ==
    IF S.exc \/ i > Len(kinds) THEN S
    ELSE propsLoop(bindProp(validateProp(
                       SeenToggle(S, "initProps", "loop", IsRoot(S)),
                       kinds[i], IsRoot(S))),
                   kinds, i + 1)

\* initProps after the loop: toggleObserving(true)
initPropsEnd(S) == IF S.exc THEN S ELSE toggleObserving(S, TRUE)

\* initProps before the loop: if (!isRoot) toggleObserving(false)
initPropsBegin(S) == IF IsRoot(S) THEN S ELSE toggleObserving(S, FALSE)

\* the loop of initInjections: defineReactive(vm, key, result[key]) for the
\* one key of the result, the observed object or a fresh one the ancestor
\* provides
injectLoop(S) ==
    Defined(observe(SeenToggle(S, "initInjections", "loop", IsRoot(S)),
                    OptionOf(S, "provided", REF_OBJ)), {"injected"})

\* initInjections: resolveInject, and if (result) { toggleObserving(false);
\* the loop; toggleObserving(true) }
initInjections(S) ==
    IF S.vm.inst.options["inject"]
    THEN toggleObserving(injectLoop(toggleObserving(Phase(S, "inject"), FALSE)),
                         TRUE)
    ELSE Phase(S, "inject")

\* if (opts.props) initProps(vm, opts.props)
initProps(S) ==
    IF S.vm.inst.options["props"]
    THEN initPropsEnd(propsLoop(initPropsBegin(Phase(S, "props")),
                                OptionOf(S, "kinds", <<"given">>), 1))
    ELSE S

RECURSIVE updateLoop(_, _, _)
\* updateChildComponent: props[key] = validateProp(key, propOptions,
\* propsData, vm) per key; the setter of the prop has childOb =
\* observe(newVal) and notifies the Dep of the prop
updateLoop(S, kinds, i) ==
    IF S.exc \/ i > Len(kinds) THEN S
    ELSE updateLoop(bindProp(validateProp(
                        SeenToggle(S, "updateChildComponent", "loop", FALSE),
                        kinds[i], FALSE)),
                    kinds, i + 1)

\* updateChildComponent, the props: if (propsData && vm.$options.props) {
\* toggleObserving(false); the loop; toggleObserving(true) }
updateChildComponent(S, kinds) ==
    initPropsEnd(updateLoop(toggleObserving(S, FALSE), kinds, 1))

\* if (opts.methods) initMethods(vm, opts.methods)
initMethods(S) ==
    IF S.vm.inst.options["methods"] THEN Phase(S, "methods") ELSE S

\* observe(data, true): if (asRootData && ob) ob.vmCount++; the data is
\* the observed object of the first instance or an object literal
observeRoot(S, value) ==
    IF S.exc THEN S
    ELSE IF value = REF_OBJ
    THEN [observe(S, value) EXCEPT !.heap.vmCount["obj"] = @ + 1,
                                  !.vm.inst.data = value,
                                  !.hist.inits["obj"] = @ + 1]
    ELSE [S EXCEPT !.vm.inst.data = value]

\* if (opts.data) initData(vm) else observe(vm._data = {}, true)
initData(S) ==
    IF S.vm.inst.options["data"]
    THEN observeRoot(Defined(Phase(S, "data"), {"data"}),
                     OptionOf(S, "dataObj", REF_NEW))
    ELSE observeRoot(Phase(S, "data"), REF_NEW)

\* new Watcher(vm, ...) of the instance: vm._watchers.push(this)
instWatcher(S, kind) ==
    IF S.exc THEN S ELSE [S EXCEPT !.vm.inst.watchers = Append(@, kind)]

\* if (opts.computed) initComputed(vm, opts.computed)
initComputed(S) ==
    IF S.vm.inst.options["computed"]
    THEN instWatcher(Phase(S, "computed"), "computed") ELSE S

\* if (opts.watch && opts.watch !== nativeWatch) initWatch(vm, opts.watch)
initWatch(S) ==
    IF S.vm.inst.options["watch"]
    THEN instWatcher(Phase(S, "watch"), "user") ELSE S

\* initState
initState(S) ==
    initWatch(initComputed(initData(initMethods(initProps(
        [S EXCEPT !.vm.inst.state = TRUE])))))

\* initProvide
initProvide(S) ==
    IF S.vm.inst.options["provide"]
    THEN [Phase(S, "provide") EXCEPT !.vm.inst.provided = ~S.exc] ELSE S

\* vm.$mount(el) of the instance: mountComponent makes the render watcher
instMount(S) == instWatcher(Phase(S, "mount"), "render")

\* if (vm.$options.el) vm.$mount(vm.$options.el)
mountEl(S) == IF S.vm.inst.options["el"] THEN instMount(S) ELSE S

\* $destroy of the instance, which has no hooks and no watchers:
\* if (vm._data.__ob__) vm._data.__ob__.vmCount--
instDestroy(S) ==
    IF S.vm.inst.isBeingDestroyed THEN S
    ELSE IF S.vm.inst.data = REF_OBJ
    THEN [S EXCEPT !.vm.inst.isBeingDestroyed = TRUE,
                   !.heap.vmCount["obj"] = @ - 1,
                   !.hist.decs["obj"] = @ + 1]
    ELSE [S EXCEPT !.vm.inst.isBeingDestroyed = TRUE]

\* _init calling the beforeCreate hook after initState
_init_StateFirst(S, options) ==
    mountEl(instHook(initProvide(instHook(initState(initInjections(
        initRender([S EXCEPT !.vm.inst = [NoInst EXCEPT !.made = TRUE,
                                                      !.options = options]]))),
        "beforeCreate")), "created"))

\* Vue.prototype._init(options), from initRender on
_init(S, options) ==
    mountEl(instHook(initProvide(initState(initInjections(instHook(
        initRender([S EXCEPT !.vm.inst = [NoInst EXCEPT !.made = TRUE,
                                                      !.options = options]]),
        "beforeCreate")))), "created"))

(********************** platforms/web/runtime/node-ops.js *******************)
\* The children of the host element are the keys of their VNodes, in order
\* (S.vm.host); null is no node.  The calls of node-ops are kept.
NullNode == "null"

NodeOp(S, op, node, ref) ==
    [S EXCEPT !.hist.nodeOps = Append(@, [op |-> op, node |-> node, ref |-> ref])]

\* the children without node
Detached(children, node) == SelectSeq(children, LAMBDA n : n # node)

\* parentNode.insertBefore(newNode, referenceNode): the node leaves the place
\* it had and is put before the reference node, or last if that is null
PutAt(children, node, i) ==
    SubSeq(children, 1, i - 1) \o <<node>> \o SubSeq(children, i, Len(children))

\* insertBefore putting the node last whatever the reference node
PutBefore_Last(children, node, ref) == Append(Detached(children, node), node)

PutBefore(children, node, ref) ==
    IF ref = NullNode THEN Append(Detached(children, node), node)
    ELSE PutAt(Detached(children, node), node,
               IndexOf(Detached(children, node), ref, 1))

insertBefore(S, newNode, referenceNode) ==
    NodeOp([S EXCEPT !.vm.host = PutBefore(@, newNode, referenceNode)],
           "insertBefore", newNode, referenceNode)

appendChild(S, child) ==
    NodeOp([S EXCEPT !.vm.host = PutBefore(@, child, NullNode)],
           "appendChild", child, NullNode)

removeChild(S, child) ==
    NodeOp([S EXCEPT !.vm.host = Detached(@, child)],
           "removeChild", child, NullNode)

\* createElement(tag, vnode) for the VNode of the key
createElement(S, key) == NodeOp(S, "createElement", key, NullNode)

\* node.nextSibling
nextSibling(S, node) ==
    IF IndexOf(S.vm.host, node, 1) = Len(S.vm.host) THEN NullNode
    ELSE S.vm.host[IndexOf(S.vm.host, node, 1) + 1]

(***************************** core/vdom/patch.js ***************************)
\* The keyed children diff.  P holds the two arrays of keys and the four
\* pointers oldStart, oldEnd, newStart, newEnd (from 1); an old child that
\* was moved by its key is Moved.
Moved == "moved"

\* createElm(vnode) and insert(parent, elm, ref)
createElm(S, key, ref) ==
    IF ref = NullNode THEN appendChild(createElement(S, key), key)
    ELSE insertBefore(createElement(S, key), key, ref)

RECURSIVE addVnodes(_, _, _, _, _), removeVnodes(_, _, _, _), diffLoop(_, _)

\* bulk-create the remaining new nodes, before the node of the new child
\* after newEnd
addVnodes(S, newCh, from, to, ref) ==
    IF from > to THEN S
    ELSE addVnodes(createElm(S, newCh[from], ref), newCh, from + 1, to, ref)

\* bulk-remove the remaining old nodes
removeVnodes(S, oldCh, from, to) ==
    IF from > to THEN S
    ELSE removeVnodes(IF oldCh[from] = Moved THEN S
                      ELSE removeChild(S, oldCh[from]), oldCh, from + 1, to)

\* after the loop: one of the ranges is empty
diffEnd(S, P) ==
    IF P.oldStart > P.oldEnd
    THEN addVnodes(S, P.newCh, P.newStart, P.newEnd,
                   IF P.newEnd + 1 > Len(P.newCh) THEN NullNode
                   ELSE P.newCh[P.newEnd + 1])
    ELSE removeVnodes(S, P.oldCh, P.oldStart, P.oldEnd)

\* the index of the key in the old children between the pointers, 0 if none
KeyIndex(P, key) ==
    IF \E i \in P.oldStart..P.oldEnd : P.oldCh[i] = key
    THEN CHOOSE i \in P.oldStart..P.oldEnd : P.oldCh[i] = key
    ELSE 0

\* the loop: the four comparisons in order, then the lookup by key
diffLoop(S, P) ==
    IF P.oldStart > P.oldEnd \/ P.newStart > P.newEnd THEN diffEnd(S, P)
    ELSE IF P.oldCh[P.oldStart] = Moved
    THEN diffLoop(S, [P EXCEPT !.oldStart = @ + 1])
    ELSE IF P.oldCh[P.oldEnd] = Moved
    THEN diffLoop(S, [P EXCEPT !.oldEnd = @ - 1])
    ELSE IF P.oldCh[P.oldStart] = P.newCh[P.newStart]
    THEN diffLoop(S, [P EXCEPT !.oldStart = @ + 1, !.newStart = @ + 1])
    ELSE IF P.oldCh[P.oldEnd] = P.newCh[P.newEnd]
    THEN diffLoop(S, [P EXCEPT !.oldEnd = @ - 1, !.newEnd = @ - 1])
    ELSE IF P.oldCh[P.oldStart] = P.newCh[P.newEnd]
    THEN diffLoop(insertBefore(S, P.oldCh[P.oldStart],
                               nextSibling(S, P.oldCh[P.oldEnd])),
                  [P EXCEPT !.oldStart = @ + 1, !.newEnd = @ - 1])
    ELSE IF P.oldCh[P.oldEnd] = P.newCh[P.newStart]
    THEN diffLoop(insertBefore(S, P.oldCh[P.oldEnd], P.oldCh[P.oldStart]),
                  [P EXCEPT !.oldEnd = @ - 1, !.newStart = @ + 1])
    ELSE IF KeyIndex(P, P.newCh[P.newStart]) = 0
    THEN diffLoop(createElm(S, P.newCh[P.newStart], P.oldCh[P.oldStart]),
                  [P EXCEPT !.newStart = @ + 1])
    ELSE diffLoop(insertBefore(S, P.newCh[P.newStart], P.oldCh[P.oldStart]),
                  [P EXCEPT !.oldCh[KeyIndex(P, P.newCh[P.newStart])] = Moved,
                            !.newStart = @ + 1])

\* updateChildren(parentElm, oldCh, newCh)
updateChildren(S, oldCh, newCh) ==
    diffLoop(S, [oldCh |-> oldCh, newCh |-> newCh, oldStart |-> 1,
                 oldEnd |-> Len(oldCh), newStart |-> 1, newEnd |-> Len(newCh)])

(******************************* the tasks **********************************)
HookNames == {"beforeMount", "mounted", "beforeUpdate", "updated",
              "beforeDestroy", "destroyed"}

(*********** compiler/to-function.js and compiler/create-compiler.js ********)
\* the count kept for x in the counts f
HasCount(f, x) == IF x \in DOMAIN f THEN f[x] ELSE 0

\* Strings are sequences of characters. template.trim()
RECURSIVE TrimLeft(_)
TrimLeft(t) == IF t # <<>> /\ Head(t) = " " THEN TrimLeft(Tail(t)) ELSE t
RECURSIVE TrimRight(_)
TrimRight(t) ==
    IF t # <<>> /\ Last(t) = " " THEN TrimRight(Front(t)) ELSE t
Trim(t) == TrimRight(TrimLeft(t))

\* options.delimiters when the option is not given
NoDelimiters == <<>>

\* String(options.delimiters): the elements joined by ","
DelimiterString(d) == d[1] \o <<",">> \o d[2]

\* const key = options.delimiters ? String(options.delimiters) + template
\*                                : template
CacheKey(template, options) ==
    IF options.delimiters # NoDelimiters
    THEN DelimiterString(options.delimiters) \o template
    ELSE template

\* compile(template, options) of createCompiler: baseCompile(template.trim(),
\* finalOptions) with the options copied onto finalOptions; the result is
\* kept as the arguments baseCompile was given. The calls are counted per
\* pair of arguments.
compile(S, template, options) ==
    [S EXCEPT !.ret = [template |-> Trim(template), options |-> options],
              !.hist.compiled =
                  Put(@, [template |-> template, options |-> options],
                      HasCount(@, [template |-> template,
                                   options |-> options]) + 1)]

\* compileToFunctions after compile: res.render = createFunction(...);
\* return (cache[key] = res)
cacheStore(S, template, options) ==
    [S EXCEPT !.heap.cache = Put(@, CacheKey(template, options), S.ret),
              !.hist.origin = Put(@, CacheKey(template, options),
                                  [template |-> template, options |-> options]),
              !.hist.served = <<[hit |-> FALSE, res |-> S.ret,
                                 template |-> template, options |-> options]>>]

\* if (cache[key]) return cache[key]
cacheServe(S, template, options) ==
    [S EXCEPT !.ret = S.heap.cache[CacheKey(template, options)],
              !.hist.served =
                  <<[hit |-> TRUE,
                     res |-> S.heap.cache[CacheKey(template, options)],
                     template |-> S.hist.origin[CacheKey(template, options)].template,
                     options |-> S.hist.origin[CacheKey(template, options)].options]>>]

\* compileToFunctions(template, options)
compileToFunctions(S, template, options) ==
    IF CacheKey(template, options) \in DOMAIN S.heap.cache
    THEN cacheServe(S, template, options)
    ELSE cacheStore(compile(S, template, options), template, options)

(***************** core/vdom/helpers/update-listeners.js ********************)
\* Event names are sequences of characters. A handler is undefined (UNDEF), a
\* function of user code (1, 2) or an invoker (InvokerBase + its number in
\* events.invokers, which holds invoker.fns).
InvokerBase == 10
IsInvoker(v) == v > InvokerBase
FnsOf(S, v) == S.heap.events.invokers[v - InvokerBase]

\* name.charAt(0) === ch ? name.slice(1) : name
StripIf(name, ch) ==
    IF name # <<>> /\ Head(name) = ch THEN Tail(name) ELSE name
StartsWith(name, ch) == name # <<>> /\ Head(name) = ch

\* normalizeEvent(name): the modifiers & (passive), ~ (once), ! (capture)
normalizeEvent(name) ==
    [name |-> StripIf(StripIf(StripIf(name, "&"), "~"), "!"),
     once |-> StartsWith(StripIf(name, "&"), "~"),
     capture |-> StartsWith(StripIf(StripIf(name, "&"), "~"), "!"),
     passive |-> StartsWith(name, "&")]

\* on[name], undefined for a name that is not a key of on
HandlerOf(on, name) == IF name \in DOMAIN on THEN on[name] ELSE UNDEF

\* createFnInvoker(fns, vm): a new invoker with invoker.fns = fns
createFnInvoker(S, fns) ==
    [S EXCEPT !.heap.events.invokers = Append(@, fns),
              !.ret = InvokerBase + Len(S.heap.events.invokers) + 1]

\* add(event.name, cur, event.capture, event.passive, event.params), the
\* function given by the caller: the handler is attached
addListener(S, name, cur) ==
    [S EXCEPT !.heap.events.attached =
                  Put(@, name, Append(IF name \in DOMAIN @ THEN @[name]
                                      ELSE <<>>, cur)),
              !.hist.listen.adds = Put(@, name, HasCount(@, name) + 1),
              !.hist.listen.log =
                  Append(@, [call |-> "add", key |-> name,
                             name |-> normalizeEvent(name).name,
                             capture |-> normalizeEvent(name).capture,
                             handler |-> cur])]

\* remove(event.name, oldOn[name], event.capture), the function given by the
\* caller: the handler is detached if it is attached
removeListener(S, name, old) ==
    [S EXCEPT !.heap.events.attached =
                  IF name \in DOMAIN @ THEN [@ EXCEPT ![name] = remove(@, old)]
                  ELSE @,
              !.hist.listen.removes = Put(@, name, HasCount(@, name) + 1),
              !.hist.listen.log =
                  Append(@, [call |-> "remove", key |-> name,
                             name |-> normalizeEvent(name).name,
                             capture |-> normalizeEvent(name).capture,
                             handler |-> old])]

\* on[name] = v
SetOn(S, name, v) == [S EXCEPT !.heap.events.on = Put(@, name, v)]

\* on[name] = the invoker just created; add(event.name, cur, ...)
addCreated(S, name) == addListener(SetOn(S, name, S.ret), name, S.ret)

\* else if (isUndef(old)): if (isUndef(cur.fns)) cur = on[name] =
\* createFnInvoker(cur, vm); add(event.name, cur, ...) (the names of the
\* model have no once modifier)
attachNew(S, name, cur) ==
    IF IsInvoker(cur) THEN addListener(S, name, cur)
    ELSE addCreated(createFnInvoker(S, cur), name)

\* else if (cur !== old): old.fns = cur; on[name] = old
replaceFns(S, name, cur, old) ==
    SetOn([S EXCEPT !.heap.events.invokers[old - InvokerBase] = cur],
          name, old)

\* the body of for (name in on)
onBody(S, name, cur, old) ==
    IF cur = UNDEF THEN S
    ELSE IF old = UNDEF THEN attachNew(S, name, cur)
    ELSE IF cur # old THEN replaceFns(S, name, cur, old)
    ELSE S

RECURSIVE onLoop(_, _)
\* for (name in on) { ... }
onLoop(S, names) ==
    IF names = <<>> THEN S
    ELSE onLoop(IF Head(names) \in DOMAIN S.heap.events.on
                THEN onBody(S, Head(names),
                            S.heap.events.on[Head(names)],
                            HandlerOf(S.heap.events.oldOn, Head(names)))
                ELSE S, Tail(names))

RECURSIVE oldOnLoop(_, _)
\* for (name in oldOn) if (isUndef(on[name])) remove(event.name, oldOn[name],
\* event.capture)
oldOnLoop(S, names) ==
    IF names = <<>> THEN S
    ELSE oldOnLoop(IF /\ Head(names) \in DOMAIN S.heap.events.oldOn
                      /\ HandlerOf(S.heap.events.on, Head(names)) = UNDEF
                   THEN removeListener(S, Head(names),
                               S.heap.events.oldOn[Head(names)])
                   ELSE S, Tail(names))

\* the keys an on object may have, in the order of for-in
EventKeys == <<<<"c">>, <<"!", "k">>>>

\* updateListeners(on, oldOn, add, remove, createOnceHandler, vm), oldOn
\* being the on of the previous call
updateListeners(S, on) ==
    oldOnLoop(onLoop([S EXCEPT !.heap.events.oldOn = S.heap.events.on,
                               !.heap.events.on = on,
                               !.hist.listen.calls = @ + 1,
                               !.hist.listen.log = <<>>],
                     EventKeys),
              EventKeys)

\* The state after new Vue({data: {flag: 1, x: 0, y: 0, list: [], obj: {}}}):
\* initData has observed the data as root data (vmCount = 1).
\* The state after new Vue(options) with data {x: 0, y: 0, flag: 1, list: [],
\* obj: {}} and the hook handlers hk, before $mount.
StartWith(hk, renderError, production) ==
    /\ data = [c \in Cells |->
                 CASE c = "flag" -> 1
                   [] c \in {"x", "y"} -> 0
                   [] c = "list" -> REF_LIST
                   [] c = "obj" -> REF_OBJ
                   [] OTHER -> UNDEF]
    /\ heap = [list |-> <<>>, eltOb |-> FALSE, sealedK |-> UNDEF, seen |-> {},
               shouldObserve |-> TRUE, cache |-> Empty,
               events |-> [on |-> Empty, oldOn |-> Empty, invokers |-> <<>>,
                           attached |-> Empty],
               obCount |-> [v \in {REF_LIST, REF_OBJ, REF_ELT, REF_SEALED} |->
                              IF v \in {REF_LIST, REF_OBJ} THEN 1 ELSE 0],
               dyn |-> [root |-> "absent", obj |-> "absent"],
               vmCount |-> [root |-> 1, obj |-> 0]]
    /\ subs = [d \in DepIds |-> <<>>]
    /\ ws = <<>>
    /\ queue = <<>>
    /\ has = Empty
    /\ circular = Empty
    /\ waiting = FALSE
    /\ flushing = FALSE
    /\ index = 0
    /\ pending = 0
    /\ targetStack = <<>>
    /\ depTarget = 0
    /\ vm = [watchers |-> <<>>, renderW |-> 0, computed |-> Empty,
             isMounted |-> FALSE, isBeingDestroyed |-> FALSE,
             isDestroyed |-> FALSE, hooks |-> hk,
             child |-> [renderW |-> 0, isMounted |-> FALSE, vnode |-> NoVNode],
             vnode |-> NoVNode, rendering |-> FALSE, inst |-> NoInst,
             host |-> <<>>,
             renderError |-> renderError, production |-> production]
    /\ pc = "idle"
    /\ hist = [op |-> "init", arg |-> <<>>, notified |-> <<>>, updates |-> <<>>,
               getLog |-> <<>>, cbLog |-> <<>>, insLog |-> <<>>, hooks |-> <<>>,
               pre |-> <<>>, dup |-> {},
               touchStack |-> <<>>, flush |-> NoFlush, evals |-> <<>>,
               sinceNotify |-> <<>>, lastRead |-> <<>>, everRead |-> <<>>,
               errors |-> 0, warned |-> 0, ret |-> UNDEF, obLog |-> <<>>,
               trav |-> <<>>, travLog |-> <<>>, deepLog |-> <<>>,
               handled |-> <<>>, escaped |-> FALSE, renders |-> <<>>,
               nodeOps |-> <<>>, stackLog |-> <<>>, toggles |-> <<>>,
               reads |-> <<>>, compiled |-> Empty, origin |-> Empty,
               served |-> <<>>,
               listen |-> [adds |-> Empty, removes |-> Empty, calls |-> 0,
                           log |-> <<>>],
               decs |-> [root |-> 0, obj |-> 0],
               fired |-> [beforeDestroy |-> 0, destroyed |-> 0],
               inits |-> [root |-> 1, obj |-> 0]]

\* new Vue(options) without a renderError option, in a development build
Start(hk) == StartWith(hk, "none", FALSE)

\* options without hook handlers
NoHooks == [h \in HookNames |-> <<>>]

Init == Start(NoHooks)

\* User code runs as a task of its own only while no flush is on the stack.
Idle == pc = "idle"

\* vm.$watch(expOrFn, cb, {sync})
Watch(kind, cb, sync) ==
    /\ Idle
    /\ Len(ws) < MaxWatchers
    /\ Commit(NewWatcher(Begin("watch", <<>>), kind, cb,
                         Options(TRUE, FALSE, sync, FALSE), FALSE))

\* vm.$watch(expOrFn, cb, {deep: true})
WatchDeep(kind, cb) ==
    /\ Idle
    /\ Len(ws) < MaxWatchers
    /\ Commit(NewWatcher(Begin("watch", <<>>), kind, cb,
                         [Options(TRUE, FALSE, FALSE, FALSE) EXCEPT !.deep = TRUE],
                         FALSE))

\* vm.$watch(expOrFn, cb, {deep: true, sync: sync})
WatchDeepSync(kind, cb, sync) ==
    /\ Idle
    /\ Len(ws) < MaxWatchers
    /\ Commit(NewWatcher(Begin("watch", <<>>), kind, cb,
                         [Options(TRUE, FALSE, sync, FALSE) EXCEPT !.deep = TRUE],
                         FALSE))

\* o.k = v in user code, o the object that is not extensible: a plain
\* property
SealedAssign(v) ==
    /\ Idle
    /\ Commit([Begin("sealedAssign", <<v>>) EXCEPT !.heap.sealedK = v])

\* initComputed after new Watcher(...): defineComputed(vm, key, userDef)
defineComputed(S, key) ==
    [S EXCEPT !.vm.computed = Put(@, key, S.ret)]

\* initComputed for one key of the computed option: it runs in initState,
\* before the watch option and before mounting, so every watcher made before
\* it is a computed one
InitComputed(key) ==
    /\ Idle
    /\ Len(ws) < MaxWatchers
    /\ key \notin DOMAIN vm.computed
    /\ \A i \in 1..Len(ws) : ws[i].lazy
    /\ ~vm.isBeingDestroyed
    /\ Commit(defineComputed(
           NewWatcher(Begin("initComputed", <<key>>), key, <<>>,
                      Options(FALSE, TRUE, FALSE, FALSE), FALSE), key))

\* vm.$mount(): mountComponent, once
Mount(kind) ==
    /\ Idle
    /\ Len(ws) < MaxWatchers
    /\ vm.renderW = 0
    /\ ~vm.isBeingDestroyed
    /\ Commit(mountComponent(Begin("mount", <<kind>>), kind))

\* new Vue({parent: vm, render}).$mount(), once
MountChild(kind) ==
    /\ Idle
    /\ Len(ws) < MaxWatchers
    /\ vm.child.renderW = 0
    /\ ~vm.isBeingDestroyed
    /\ Commit(mountChild(Begin("mountChild", <<kind>>), kind))

\* vm[p] = v in user code
Assign(p, v) ==
    /\ Idle
    /\ Commit(reactiveSetter(
           BeginWith("assign", <<p, v>>,
                     [val |-> data[p], subs |-> subs[p], queue |-> queue]),
           p, v))

\* vm[key] read in user code, outside any watcher
ReadKey(key) ==
    /\ Idle
    /\ Commit(ReadComputed(Begin("read", <<key>>), key))

\* the function returned by $watch
Unwatch(w) ==
    /\ Idle
    /\ w \in 1..Len(ws)
    /\ ws[w].user
    /\ Commit(teardown(Begin("unwatch", <<w>>), w))

\* vm.$destroy()
Destroy ==
    /\ Idle
    /\ Commit(destroy(Begin("destroy", <<>>)))

\* vm.list[method](...args)
ArrayMethod(method, args) ==
    /\ Idle
    /\ Len(Original(method, heap.list, args)) <= MaxLen
    /\ Commit(mutator(
           BeginWith("mutator", <<method, args>>,
                     [list |-> heap.list, subs |-> subs["obList"],
                      eltOb |-> heap.eltOb]),
           method, args))

\* vm.list[i] = v
IndexAssign(i, v) ==
    /\ Idle
    /\ Commit([BeginWith("index", <<i, v>>, [queue |-> queue])
                  EXCEPT !.heap.list = SetIndex(@, i, v)])

\* vm.list.length = n
LengthAssign(n) ==
    /\ Idle
    /\ Commit([BeginWith("length", <<n>>, [queue |-> queue])
                  EXCEPT !.heap.list = SetLength(@, n)])

\* Vue.set(target, key, val)
VueSet(target, key, val) ==
    /\ Idle
    /\ Commit(Returned(set(BeginWith("set", <<target, key, val>>,
                                     [dyn |-> heap.dyn, subs |-> subs,
                                      data |-> data,
                                      vmCount |-> heap.vmCount]),
                           target, key, val)))

\* vm.__patch__(prevVnode, vnode) for a root whose children have the keys
\* newCh: the old children are those of the host element
Patch(newCh) ==
    /\ Idle
    /\ Commit(updateChildren(
           BeginWith("patch", <<newCh>>, [host |-> vm.host]), vm.host, newCh))

\* new Vue(options), once more
NewVue(options) ==
    /\ Idle
    /\ Commit(_init(Begin("init", <<>>), options))

\* vm.$mount(el) in user code, on the instance made without the el option
InstMount ==
    /\ Idle
    /\ vm.inst.made
    /\ ~vm.inst.options["el"]
    /\ "render" \notin SeqToSet(vm.inst.watchers)
    /\ Commit(instMount(Begin("instMount", <<>>)))

\* inst.$destroy() in user code
InstDestroy ==
    /\ Idle
    /\ vm.inst.made
    /\ Commit(instDestroy(Begin("instDestroy", <<>>)))

\* the parent renders again with new propsData for the child instance:
\* prepatch calls updateChildComponent
UpdateChild(kinds) ==
    /\ Idle
    /\ vm.inst.made
    /\ vm.inst.options["props"]
    /\ ~IsRoot(State)
    /\ Commit(updateChildComponent(Begin("updateChild", <<kinds>>), kinds))

\* Vue.observable(obj): observe(obj); return obj
VueObservable(v) ==
    /\ Idle
    /\ Commit(Returned(Return(observe(
           BeginWith("observable", <<v>>, [eltOb |-> heap.eltOb]), v), v)))

\* Vue.delete(target, key)
VueDelete(target, key) ==
    /\ Idle
    /\ Commit(del(BeginWith("del", <<target, key>>,
                            [dyn |-> heap.dyn, subs |-> subs, data |-> data,
                             vmCount |-> heap.vmCount]),
                  target, key))

\* target[key] = val for the key that set() may add: vm.obj.k = val,
\* vm.$data.z = val
AssignKey(target, val) ==
    /\ Idle
    /\ Commit(PlainAssign(
           BeginWith("assignKey", <<target, val>>,
                     [dyn |-> heap.dyn, subs |-> subs,
                      val |-> data[DynCell(target)]]),
           target, DynCell(target), val))

\* The microtask: flushSchedulerQueue starts
FlushBegin ==
    /\ Idle
    /\ pending > 0
    /\ Commit(FlushHead(Begin("flushBegin", <<>>)))

\* the iteration left the loop early
MarkAborted(S) == [S EXCEPT !.hist.flush.aborted = S.pc = "idle"]

\* for (index = 0; index < queue.length; index++) { ... }: one iteration
FlushStep ==
    /\ pc = "flush"
    /\ index < Len(queue)
    /\ Commit(MarkAborted(FlushBody(
           BeginWith("flushStep", <<queue[index + 1]>>,
                     [value |-> ws[queue[index + 1]].value,
                      active |-> ws[queue[index + 1]].active]))))

\* the loop is over: reset, updated hooks
FlushEnd ==
    /\ pc = "flush"
    /\ index >= Len(queue)
    /\ Commit(FlushTail(Begin("flushEnd", <<>>)))

(**************************** specifications ********************************)
\* Scheduler: user watchers on x and y (vm.$watch('x', cb)) whose callbacks
\* do nothing or write x or y, and user code that writes x and y.
SchedWatchers ==
    {<<"x", <<>>>>, <<"y", <<ToggleStep("x")>>>>, <<"x", <<ToggleStep("x")>>>>}

NextSched ==
    \/ \E k \in SchedWatchers : Watch(k[1], k[2], FALSE)
    \/ \E p \in {"x", "y"}, v \in Nums : Assign(p, v)
    \/ FlushBegin
    \/ FlushStep
    \/ FlushEnd

SpecSched == Init /\ [][NextSched]_vars

(************************* properties: scheduler ****************************)
Count(s, x) == Cardinality({i \in 1..Len(s) : s[i] = x})

\* how often the flush observed in hist.flush invoked run() on w
RunsOf(w) == IF w \in DOMAIN hist.flush.runs THEN hist.flush.runs[w] ELSE 0

\* the part of the queue the loop has not taken yet
NotYetRun == {i \in 1..Len(queue) : i > index}

\* every queued id is there once, and what a write notified is queued once
QueuedOnce ==
    /\ \A i, j \in NotYetRun : i # j => queue[i] # queue[j]
    /\ hist.op = "assign" =>
          \A w \in SeqToSet(hist.updates) : Count(queue, w) = 1

\* the watchers queued when the flush began and not enqueued during it were
\* each run once
RanOnce == \A w \in hist.flush.init \ hist.flush.enq : RunsOf(w) = 1

C2_Original ==
    hist.flush.prevRun.id # 0 => hist.flush.prevRun.id <= hist.flush.lastRun.id

\* C2 (as amended): within a flush the id of the watcher run next is not
\* lower than the id of the one run before it, unless that watcher was
\* enqueued while the one before it was running.
C2_Order ==
    hist.flush.prevRun.id # 0 =>
        \/ hist.flush.prevRun.id <= hist.flush.lastRun.id
        \/ hist.flush.lastRun.id \in hist.flush.prevRun.ins

\* C2 witness: a watcher enqueued by the run of a higher id was run next.
C2_Witness ==
    /\ hist.flush.prevRun.id # 0
    /\ hist.flush.lastRun.id < hist.flush.prevRun.id
    /\ hist.flush.lastRun.id \in hist.flush.prevRun.ins

\* the queue entries after the cursor idx (0-based) never descend
TailSorted(q, idx) ==
    \A i, j \in 1..Len(q) : (idx + 1 < i /\ i < j) => q[i] <= q[j]

\* every insertion by queueWatcher in the last loop iteration went behind the
\* cursor and left the entries behind the cursor in non-decreasing order
InsertedInOrder ==
    \A n \in 1..Len(hist.insLog) :
        LET e == hist.insLog[n]
        IN e.at > e.index /\ e.queue[e.at + 1] = e.id /\ TailSorted(e.queue, e.index)

\* C3 (as amended): a watcher enqueued while a flush is running is inserted
\* strictly after the cursor with the entries past the cursor left in
\* non-decreasing id order, and a flush whose loop runs to its end has run
\* every watcher enqueued during it.
C3_Insert == InsertedInOrder /\ (hist.op = "flushEnd" => hist.flush.owed = {})

\* C3 witness: a flush that had watchers enqueued while it ran has ended with
\* all of them run.
C3_Witness ==
    hist.op = "flushEnd" /\ hist.flush.enq # {} /\ hist.flush.owed = {}

\* C3 as stated: the inserted watcher is run in that same flush, however the
\* flush ends.
C3_Original ==
    /\ InsertedInOrder
    /\ (hist.op = "flushEnd" \/ hist.flush.aborted) => hist.flush.owed = {}


(*********************** dependency collection ******************************)
\* User watchers whose getter reads x or y depending on flag: it returns, or
\* throws after reading, or clears flag itself; created sync or not.
DepKinds == {"cond", "condThrow", "condSelf"}

NextDeps ==
    \/ \E k \in DepKinds, sync \in BOOLEAN : Watch(k, <<>>, sync)
    \/ \E p \in Props, v \in Nums : Assign(p, v)
    \/ FlushBegin
    \/ FlushStep
    \/ FlushEnd

SpecDeps == Init /\ [][NextDeps]_vars

\* C4 as stated: whenever a call of Watcher.get() has returned in the last
\* task (from the constructor, from run(), with a getter that threw and was
\* trapped, or nested inside another get() of the same watcher), the
\* watcher's deps were exactly the Deps that depend() was invoked on during
\* that getter invocation.
C4_DepsAreTouched ==
    \A n \in 1..Len(hist.getLog) :
        hist.getLog[n].deps = hist.getLog[n].touched

\* One watcher with the getter flag ? x : y and a callback that does nothing,
\* not sync, and user code writing flag, x and y.
NextCond ==
    \/ Watch("cond", <<>>, FALSE)
    \/ \E p \in Props, v \in Nums : Assign(p, v)
    \/ FlushBegin
    \/ FlushStep
    \/ FlushEnd

SpecCond == Init /\ [][NextCond]_vars

\* the write of the last task changed the stored value
Changed == ~StrictEq(hist.pre.val, data[hist.arg[1]])

\* C5: a write to a property p that the most recent evaluation of a watcher
\* did not read does not call its update(), does not enqueue it and fires no
\* callback, also when an earlier evaluation read p; a write that changes a
\* property its most recent evaluation read does enqueue it.
C5_ConditionalDrop ==
    hist.op = "assign" =>
        \A w \in 1..Len(ws) :
            IF hist.arg[1] \in hist.lastRead[w]
            THEN Changed => (w \in SeqToSet(hist.updates) /\ Count(queue, w) = 1)
            ELSE /\ w \notin SeqToSet(hist.updates)
                 /\ Count(queue, w) = Count(hist.pre.queue, w)
                 /\ hist.cbLog = <<>>

\* C5 witness: with flag false, x (read by an earlier evaluation, not by the
\* most recent one) was changed and the watcher was left alone.
C5_Witness ==
    /\ hist.op = "assign"
    /\ hist.arg[1] = "x"
    /\ Changed
    /\ \E w \in 1..Len(ws) :
           /\ hist.lastRead[w] = {"flag", "y"}
           /\ "x" \in hist.everRead[w]
           /\ w \notin SeqToSet(queue)

(******************************* teardown ***********************************)
\* A component with computed properties and user watchers that is mounted,
\* written to, read and destroyed.
NextLife ==
    \/ \E key \in {"sum"} : InitComputed(key)
    \/ \E k \in {"x", "useSum"} : Watch(k, <<>>, FALSE)
    \/ Mount("useSum")
    \/ \E p \in {"x"}, v \in Nums : Assign(p, v)
    \/ \E key \in {"sum"} : ReadKey(key)
    \/ \E w \in 1..MaxWatchers : Unwatch(w)
    \/ Destroy
    \/ FlushBegin
    \/ FlushStep
    \/ FlushEnd

SpecLife == Init /\ [][NextLife]_vars

\* C6 as stated: every watcher in the subs of any Dep is active.
C6_SubsActive ==
    \A d \in DepIds : \A i \in 1..Len(subs[d]) : ws[subs[d][i]].active


(************************** reactive assignment *****************************)
\* Watchers on x and on x + y, sync or not, with callbacks that do nothing,
\* and user code writing numbers and NaN to x and y.
NextAssign ==
    \/ \E k \in {"x", "sum"}, sync \in BOOLEAN : Watch(k, <<>>, sync)
    \/ \E p \in {"x", "y"}, v \in Nums \cup {NAN} : Assign(p, v)
    \/ FlushBegin
    \/ FlushStep
    \/ FlushEnd

SpecAssign == Init /\ [][NextAssign]_vars

\* C7: assigning a reactive data property the value it holds (the same value
\* code: === equal, or NaN over NaN) leaves it as it is and calls no notify;
\* assigning another value stores it and calls notify once, on the property's
\* own Dep, which calls update() once on each watcher subscribed at that time.
C7_Assign ==
    hist.op = "assign" =>
        IF hist.arg[2] = hist.pre.val
        THEN /\ data[hist.arg[1]] = hist.pre.val
             /\ hist.notified = <<>>
             /\ hist.updates = <<>>
        ELSE /\ data[hist.arg[1]] = hist.arg[2]
             /\ hist.notified = <<hist.arg[1]>>
             /\ hist.updates = hist.pre.subs

\* C7 witness: NaN was assigned to a property holding NaN that has a
\* subscriber, and nothing was notified.
C7_Witness ==
    /\ hist.op = "assign"
    /\ hist.arg[2] = NAN
    /\ hist.pre.val = NAN
    /\ hist.pre.subs # <<>>
    /\ hist.notified = <<>>

(******************************* arrays *************************************)
Elems == {1, REF_ELT}

\* the argument lists user code calls the array methods with
MethodCalls ==
    {<<m, Args(0, 0, <<e>>)>> : m \in {"push", "unshift"}, e \in Elems}
    \cup {<<m, Args(0, 0, <<>>)>> : m \in {"pop", "shift", "sort", "reverse"}}
    \cup {<<"splice", Args(st, d, it)>> :
             st \in 0..MaxLen, d \in 0..1, it \in {<<>>} \cup {<<e>> : e \in Elems}}

\* A watcher on list, and user code that calls the array methods and assigns
\* elements by index and length.
NextArray ==
    \/ Watch("list", <<>>, FALSE)
    \/ \E c \in MethodCalls : ArrayMethod(c[1], c[2])
    \/ \E i \in 0..(MaxLen - 1), v \in Elems : IndexAssign(i, v)
    \/ \E n \in 0..MaxLen : LengthAssign(n)
    \/ FlushBegin
    \/ FlushStep
    \/ FlushEnd

SpecArray == Init /\ [][NextArray]_vars

\* C8: a call of one of the seven array methods leaves the array as the
\* native method does, has the inserted elements observed, and calls notify
\* once, on the array's container Dep, so that update() is called once on
\* every watcher that read the array; an assignment by index or of length
\* notifies no Dep and calls update() on no watcher.
C8_ArrayMethods ==
    /\ hist.op = "mutator" =>
          /\ heap.list = Original(hist.arg[1], hist.pre.list, hist.arg[2])
          /\ REF_ELT \in SeqToSet(Inserted(hist.arg[1], hist.arg[2])) => heap.eltOb
          /\ hist.notified = <<"obList">>
          /\ hist.updates = hist.pre.subs
          /\ \A w \in 1..Len(ws) :
                 "obList" \in SeqToSet(ws[w].deps) => Count(hist.updates, w) = 1
    /\ hist.op \in {"index", "length"} =>
          hist.notified = <<>> /\ hist.updates = <<>> /\ queue = hist.pre.queue

\* C8 witness: a method call inserted a plain object not observed before into
\* the array a watcher had read: the object is observed, the watcher notified.
C8_Witness ==
    /\ hist.op = "mutator"
    /\ REF_ELT \in SeqToSet(Inserted(hist.arg[1], hist.arg[2]))
    /\ ~hist.pre.eltOb
    /\ heap.eltOb
    /\ hist.updates # <<>>

(********************************* set **************************************)
\* Watchers on obj and on obj.k, and user code that adds k to obj with set or
\* by assignment, writes it, and calls set on the root data.
NextSet ==
    \/ \E k \in {"obj", "objk"} : Watch(k, <<>>, FALSE)
    \/ \E t \in {"obj", "root"}, v \in Nums : VueSet(t, DynCell(t), v)
    \/ \E v \in Nums : AssignKey("obj", v)
    \/ FlushBegin
    \/ FlushStep
    \/ FlushEnd

SpecSet == Init /\ [][NextSet]_vars

\* C9: set(obj, k, v) for a key obj does not have, obj being observed and no
\* root data, makes k reactive (a later write of another value to obj.k
\* notifies the Dep of k) and calls notify once, on the container Dep of obj,
\* so that update() is called on every watcher that read the property holding
\* obj; adding k by assignment notifies no Dep and calls update() on no watcher.
C9_Set ==
    /\ (hist.op = "set" /\ hist.arg[1] = "obj" /\ hist.pre.dyn["obj"] = "absent") =>
          /\ heap.dyn["obj"] = "reactive"
          /\ data["objk"] = hist.arg[3]
          /\ hist.notified = <<"obObj">>
          /\ hist.updates = hist.pre.subs["obObj"]
          /\ \A w \in 1..Len(ws) :
                 "obj" \in hist.lastRead[w] => w \in SeqToSet(hist.updates)
    /\ (hist.op = "assignKey" /\ hist.pre.dyn["obj"] = "absent") =>
          /\ heap.dyn["obj"] = "plain"
          /\ hist.notified = <<>>
          /\ hist.updates = <<>>
    /\ (hist.op = "assignKey" /\ hist.pre.dyn["obj"] = "reactive"
          /\ hist.arg[2] # hist.pre.val) =>
          /\ hist.notified = <<"objk">>
          /\ hist.updates = hist.pre.subs["objk"]

\* C9 witness: set added k to obj and notified a watcher that had read obj.
C9_Witness ==
    /\ hist.op = "set"
    /\ hist.arg[1] = "obj"
    /\ hist.pre.dyn["obj"] = "absent"
    /\ heap.dyn["obj"] = "reactive"
    /\ hist.updates # <<>>

(****************************** computed ************************************)
ComputedKeys == {"sum", "konst", "boom"}

\* A component with computed properties (x + y, a constant, one whose getter
\* throws) and user watchers reading them; user code reads them and writes x
\* and y.
NextComputed ==
    \/ \E key \in ComputedKeys : InitComputed(key)
    \/ \E k \in {"useSum", "useKonst"} : Watch(k, <<>>, FALSE)
    \/ \E key \in ComputedKeys : ReadKey(key)
    \/ \E p \in {"x", "y"}, v \in Nums : Assign(p, v)
    \/ FlushBegin
    \/ FlushStep
    \/ FlushEnd

SpecComputed == Init /\ [][NextComputed]_vars

\* a computed watcher is created dirty and unevaluated, and its getter is
\* invoked only while it is dirty
LazyStart ==
    /\ hist.op = "initComputed" =>
          /\ ws[Len(ws)].lazy /\ ws[Len(ws)].dirty
          /\ hist.evals[Len(ws)] = 0
          /\ hist.getLog = <<>>
    /\ \A n \in 1..Len(hist.getLog) :
           ws[hist.getLog[n].w].lazy => hist.getLog[n].dirty

\* a computed with no reactive inputs has been evaluated at most once
KonstOnce ==
    \A w \in 1..Len(ws) :
        (ws[w].lazy /\ ws[w].getter = "konst") => hist.evals[w] <= 1

\* C10 (as amended): a computed watcher starts dirty and is not evaluated at
\* construction; its getter is invoked only when the property is read while
\* dirty; a getter that returns is invoked at most once between two
\* consecutive notifications from its Deps, however often the property is
\* read, and a computed with no reactive inputs at most once in total.
C10_Caching ==
    /\ LazyStart
    /\ KonstOnce
    /\ \A w \in 1..Len(ws) :
           (ws[w].lazy /\ ws[w].getter # "boom") => hist.sinceNotify[w] <= 1

\* C10 witness: a read of a computed property that had been evaluated once
\* was served without invoking the getter.
C10_Witness ==
    /\ hist.op = "read"
    /\ hist.getLog = <<>>
    /\ hist.arg[1] \in DOMAIN vm.computed
    /\ hist.evals[vm.computed[hist.arg[1]]] = 1
    /\ ~ws[vm.computed[hist.arg[1]]].dirty

\* C10 as stated: any getter is invoked at most once between two consecutive
\* notifications.
C10_Original ==
    /\ LazyStart
    /\ KonstOnce
    /\ \A w \in 1..Len(ws) : ws[w].lazy => hist.sinceNotify[w] <= 1

(************************* computed forwarding ******************************)
\* A component with computed properties (x + y, flag ? x : y, one whose getter
\* throws after reading x), a user watcher or the render watcher reading one
\* of them, and user code that reads them and writes flag, x and y.
ForwardKeys == {"sum", "cond", "boom"}

\* the computed key a getter kind reads ("none" if it reads none)
KeyOf(kind) ==
    CASE kind = "useSum" -> "sum"
      [] kind = "useCond" -> "cond"
      [] kind = "useBoom" -> "boom"
      [] kind = "useKonst" -> "konst"
      [] OTHER -> "none"

NextForward ==
    \/ \E key \in ForwardKeys : InitComputed(key)
    \/ \E k \in {"useSum", "useCond", "useBoom"} : Watch(k, <<>>, FALSE)
    \/ Mount("useSum")
    \/ \E key \in ForwardKeys : ReadKey(key)
    \/ \E p \in Props, v \in Nums : Assign(p, v)
    \/ FlushBegin
    \/ FlushStep
    \/ FlushEnd

SpecForward == Init /\ [][NextForward]_vars

\* the non-lazy watchers whose getter reads the computed property of the lazy
\* watcher c
ReadersOf(c) ==
    {w \in 1..Len(ws) :
        /\ ~ws[w].lazy
        /\ KeyOf(ws[w].getter) \in DOMAIN vm.computed
        /\ vm.computed[KeyOf(ws[w].getter)] = c}

\* what the user getter of a computed property returns for the data as it is
Expected(kind) ==
    CASE kind = "sum" -> Plus(data["x"], data["y"])
      [] kind = "cond" -> IF Truthy(data["flag"]) THEN data["x"] ELSE data["y"]
      [] OTHER -> UNDEF

\* Computed forwarding for the lazy watchers in cs:
\*  - when an evaluation of a watcher w that reads the computed property of c
\*    has returned in the last task, w has every Dep of c.deps in its deps and
\*    is in the subs of each;
\*  - a write that changes a property c is subscribed to calls c.update()
\*    once, leaves c dirty and leaves every reader of c in the queue once;
\*  - the run of a reader in a flush leaves c clean, c.value what the getter
\*    of c gives for the data as it is, and the reader's value that value.
Forwarding(cs) ==
    \A c \in cs :
        /\ \A n \in 1..Len(hist.getLog) :
               hist.getLog[n].w \in ReadersOf(c) =>
                   /\ SeqToSet(ws[c].deps) \subseteq hist.getLog[n].deps
                   /\ \A d \in SeqToSet(ws[c].deps) :
                          hist.getLog[n].w \in SeqToSet(subs[d])
        /\ (hist.op = "assign" /\ Changed /\ c \in SeqToSet(hist.pre.subs)) =>
               /\ Count(hist.updates, c) = 1
               /\ ws[c].dirty
               /\ \A w \in ReadersOf(c) : Count(queue, w) = 1
        /\ (hist.op = "flushStep" /\ hist.arg[1] \in ReadersOf(c)) =>
               /\ ~ws[c].dirty
               /\ ws[c].value = Expected(ws[c].getter)
               /\ ws[hist.arg[1]].value = IF ws[hist.arg[1]].render THEN UNDEF
                                          ELSE ws[c].value

\* the lazy watchers whose getter returns
Returning == {c \in 1..Len(ws) : ws[c].lazy /\ ws[c].getter # "boom"}

NextRun ==
    \/ \E k \in {"x", "list"} : Watch(k, <<>>, FALSE)
    \/ \E k \in {"x", "list"} : WatchDeep(k, <<>>)
    \/ \E v \in Nums \cup {NAN} : Assign("x", v)
    \/ ArrayMethod("push", Args(0, 0, <<1>>))
    \/ ArrayMethod("pop", Args(0, 0, <<>>))
    \/ \E w \in 1..MaxWatchers : Unwatch(w)
    \/ FlushBegin
    \/ FlushStep
    \/ FlushEnd

SpecRun == Init /\ [][NextRun]_vars

\* the condition under which run() fires the callback for the value new
Fires(w, new, stored) == ~StrictEq(new, stored) \/ isObject(new) \/ ws[w].deep

\* C12: the run() a flush invokes on an active watcher evaluates the getter
\* once; the callback is invoked if and only if the new value is not === the
\* stored value, or is an object, or the watcher is deep; it receives the new
\* value and the value stored before, and the stored value is replaced
\* exactly when the callback is invoked; run() on an inactive watcher invokes
\* neither the getter nor the callback.
C12_Run ==
    hist.op = "flushStep" =>
        IF ~hist.pre.active
        THEN /\ hist.getLog = <<>>
             /\ hist.cbLog = <<>>
             /\ ws[hist.arg[1]].value = hist.pre.value
        ELSE /\ Len(hist.getLog) = 1
             /\ hist.getLog[1].w = hist.arg[1]
             /\ IF Fires(hist.arg[1], hist.getLog[1].value, hist.pre.value)
                THEN /\ hist.cbLog = <<[w |-> hist.arg[1],
                                        val |-> hist.getLog[1].value,
                                        old |-> hist.pre.value,
                                        active |-> TRUE]>>
                     /\ ws[hist.arg[1]].value = hist.getLog[1].value
                ELSE /\ hist.cbLog = <<>>
                     /\ ws[hist.arg[1]].value = hist.pre.value

\* C12 witness: a flush ran a watcher that is not deep and whose getter gave
\* the array it had stored already, and the callback was invoked with it.
C12_Witness ==
    /\ hist.op = "flushStep"
    /\ hist.pre.active
    /\ ~ws[hist.arg[1]].deep
    /\ hist.pre.value = REF_LIST
    /\ hist.cbLog = <<[w |-> hist.arg[1], val |-> REF_LIST, old |-> REF_LIST,
                       active |-> TRUE]>>

(*************************** teardown is final ******************************)
\* A component with a computed property x + y and user watchers on x and on
\* the computed property, sync or not, whose callbacks do nothing, destroy the
\* component or call the unwatch function of the second watcher; user code
\* writes x, calls unwatch functions and $destroy, and runs the flushes.
FinalCallbacks == {<<>>, <<DestroyStep>>, <<UnwatchStep(2)>>}

NextFinal ==
    \/ InitComputed("sum")
    \/ \E k \in {"x", "useSum"}, cb \in FinalCallbacks, sync \in BOOLEAN :
           Watch(k, cb, sync)
    \/ \E v \in Nums : Assign("x", v)
    \/ \E w \in 1..MaxWatchers : Unwatch(w)
    \/ Destroy
    \/ FlushBegin
    \/ FlushStep
    \/ FlushEnd

SpecFinal == Init /\ [][NextFinal]_vars

\* the tasks that are a Dep notification (a write), a queued run or a flush
Notifying == {"assign", "flushBegin", "flushStep", "flushEnd"}

\* C13 as stated: in a task that writes a property (and so notifies its Dep)
\* or is a part of a flush, every getter and every callback invoked belongs
\* to a watcher on which teardown() had not been called when it was invoked.
C13_Final ==
    hist.op \in Notifying =>
        /\ \A n \in 1..Len(hist.getLog) : hist.getLog[n].active
        /\ \A n \in 1..Len(hist.cbLog) : hist.cbLog[n].active

(************************** infinite loop guard *****************************)
\* the scheduler state is as resetSchedulerState leaves it
SchedulerReset ==
    /\ queue = <<>>
    /\ index = 0
    /\ has = Empty
    /\ circular = Empty
    /\ ~waiting
    /\ ~flushing
    /\ pc = "idle"

\* how many runs of w in the flush observed in hist.flush left w queued again
RequeuedOf(w) ==
    IF w \in DOMAIN hist.flush.requeued THEN hist.flush.requeued[w] ELSE 0

\* C14: a watcher that was put into the queue again during each of its runs
\* of a flush has run() invoked at most MAX_UPDATE_COUNT + 1 times in it; the
\* iteration that leaves the loop early is the run number MAX_UPDATE_COUNT + 1
\* among such runs of its watcher; at most one warning is given in a flush,
\* none by a flush that ends normally and exactly one by the flush that is
\* left early, which leaves the queue empty and the scheduler state reset.
C14_Guard ==
    /\ \A w \in 1..Len(ws) :
          /\ RequeuedOf(w) <= MAX_UPDATE_COUNT + 1
          /\ RunsOf(w) = RequeuedOf(w) => RunsOf(w) <= MAX_UPDATE_COUNT + 1
    /\ hist.flush.warned <= 1
    /\ hist.op = "flushEnd" => hist.flush.warned = 0
    /\ hist.flush.aborted =>
          /\ RequeuedOf(hist.arg[1]) = MAX_UPDATE_COUNT + 1
          /\ hist.flush.warned = 1
          /\ SchedulerReset

\* C14 witness: a flush was stopped by the guard at the run number
\* MAX_UPDATE_COUNT + 1 of a watcher that was queued again in each of its
\* runs, while another watcher was still queued behind the cursor; it gave
\* one warning and the queue is empty.
C14_Witness ==
    /\ hist.flush.aborted
    /\ hist.flush.warned = 1
    /\ RunsOf(hist.arg[1]) = MAX_UPDATE_COUNT + 1
    /\ RequeuedOf(hist.arg[1]) = MAX_UPDATE_COUNT + 1
    /\ hist.flush.init \ DOMAIN hist.flush.runs # {}
    /\ queue = <<>>

(************************ watchers queuing one another ***********************)
\* Two user watchers whose callbacks write the property the other one watches:
\* vm.$watch('x', function () { this.y = 1 - this.y }) and
\* vm.$watch('y', function () { this.x = 1 - this.x }). The loop is followed
\* until run() was invoked RunsCap times on a watcher.
CycleWatchers == {<<"x", <<ToggleStep("y")>>>>, <<"y", <<ToggleStep("x")>>>>}

\* an iteration of the loop while no watcher has reached RunsCap runs
FlushStepBounded == (\A w \in 1..Len(ws) : RunsOf(w) < RunsCap) /\ FlushStep

NextCycle ==
    \/ \E k \in CycleWatchers : Watch(k[1], k[2], FALSE)
    \/ \E p \in {"x", "y"}, v \in Nums : Assign(p, v)
    \/ FlushBegin
    \/ FlushStepBounded
    \/ FlushEnd

SpecCycle == Init /\ [][NextCycle]_vars

\* C15 as stated: in a flush run() is invoked on no watcher more than
\* MAX_UPDATE_COUNT + 1 times, also when watchers queue one another.
C15_Bound == \A w \in 1..Len(ws) : RunsOf(w) <= MAX_UPDATE_COUNT + 1

(*************************** component hierarchy ****************************)
\* An instance vm and a child instance made with the parent option, each
\* mounted by $mount() in either order; the render functions read x or y of
\* the data of vm, which user code writes.
NextTree ==
    \/ \E k \in {"x", "y"} : Mount(k)
    \/ \E k \in {"x", "y"} : MountChild(k)
    \/ \E p \in {"x", "y"}, v \in Nums : Assign(p, v)
    \/ FlushBegin
    \/ FlushStep
    \/ FlushEnd

SpecTree == Init /\ [][NextTree]_vars

\* both render watchers exist
BothMounted == vm.renderW # 0 /\ vm.child.renderW # 0

\* What the sort of the queue gives (C16): the watchers queued when a flush
\* begins are first run in ascending order of their ids: when the
\* render watcher of vm or of its child is run for the first time in a flush
\* and the other one was constructed earlier and was queued when the flush
\* began, the other one has been run before. The ancestor's render watcher
\* is the earlier one when the ancestor was mounted first.
C16_Order ==
    (hist.op = "flushStep" /\ BothMounted) =>
        \A w \in {vm.renderW, vm.child.renderW} :
            \A v \in {vm.renderW, vm.child.renderW} :
                (hist.arg[1] = w /\ RunsOf(w) = 1 /\ v < w
                   /\ v \in hist.flush.init) => RunsOf(v) >= 1

\* the case of C16_Order: both render watchers were queued when the flush began and the
\* one of the child, constructed after that of vm, has just been run.
C16_Witness ==
    /\ hist.op = "flushStep"
    /\ BothMounted
    /\ vm.renderW < vm.child.renderW
    /\ hist.arg[1] = vm.child.renderW
    /\ hist.flush.init = {vm.renderW, vm.child.renderW}
    /\ RunsOf(vm.renderW) = 1

\* C16 as stated: no run of the render watcher of vm, the ancestor, comes
\* after a run of the render watcher of its child in the same flush.
C16_Original ==
    (hist.op = "flushStep" /\ BothMounted /\ hist.arg[1] = vm.renderW) =>
        RunsOf(vm.child.renderW) = 0

(********************** user watchers and the render ************************)
\* One instance with user watchers on x and y made by vm.$watch before or
\* after vm.$mount(), whose render function reads x or y.
NextUser ==
    \/ \E k \in {"x", "y"} : Watch(k, <<>>, FALSE)
    \/ \E k \in {"x", "y"} : Mount(k)
    \/ \E p \in {"x", "y"}, v \in Nums : Assign(p, v)
    \/ FlushBegin
    \/ FlushStep
    \/ FlushEnd

SpecUser == Init /\ [][NextUser]_vars

\* the loop has just run a user watcher of the mounted instance
UserRun ==
    /\ hist.op = "flushStep"
    /\ vm.renderW # 0
    /\ ws[hist.arg[1]].user

\* C17 as stated: when a user watcher is run in a flush, the render watcher
\* of its component has not been run in that flush, whenever the user watcher
\* was made.
C17_Original == UserRun => RunsOf(vm.renderW) = 0

\* What the sort of the queue gives (C17): a user watcher made before the
\* render watcher is run in a flush before the render watcher is.
C17_Created ==
    (UserRun /\ hist.arg[1] < vm.renderW) => RunsOf(vm.renderW) = 0

\* the case of C17_Created: a user watcher made before the render watcher was
\* run in a flush in which the render watcher is queued behind it
C17_Witness ==
    /\ UserRun
    /\ hist.arg[1] < vm.renderW
    /\ vm.renderW \in hist.flush.init
    /\ pc = "flush"

(****************************** updated hooks *******************************)
\* One instance whose updated hook does nothing or writes x, with a user
\* watcher on x whose callback does nothing or writes x (and is then stopped
\* by the guard), mounted with a render function that reads x or y.
UpdatedHandlers == {<<>>, <<ToggleStep("x")>>}

InitUpdated ==
    \E h \in UpdatedHandlers : Start([NoHooks EXCEPT !["updated"] = h])

NextUpdated ==
    \/ \E cb \in {<<>>, <<ToggleStep("x")>>} : Watch("x", cb, FALSE)
    \/ \E k \in {"x", "y"} : Mount(k)
    \/ \E v \in Nums : Assign("x", v)
    \/ Destroy
    \/ FlushBegin
    \/ FlushStep
    \/ FlushEnd

SpecUpdated == InitUpdated /\ [][NextUpdated]_vars

\* the calls of the updated hook in the task
UpdatedCalls == {n \in 1..Len(hist.hooks) : hist.hooks[n].hook = "updated"}

\* the task ended flushSchedulerQueue by its statements after the loop
TailRan == hist.op = "flushEnd" \/ (hist.op = "flushStep" /\ hist.flush.warned = 1)

\* The updated hook is called only by the end of flushSchedulerQueue, the
\* first call finds the scheduler state reset, every call finds the instance
\* mounted and not destroyed, and there is one call per entry of the queue
\* that is vm._watcher.
UpdatedAfterReset ==
    /\ UpdatedCalls # {} => TailRan
    /\ \A n \in UpdatedCalls :
          /\ hist.hooks[n].isMounted /\ ~hist.hooks[n].isDestroyed
          /\ (\A m \in UpdatedCalls : n <= m) => hist.hooks[n].reset
    /\ TailRan =>
          Cardinality(UpdatedCalls) =
              IF vm.isMounted /\ ~vm.isDestroyed
              THEN Count(hist.flush.snapshot, vm.renderW) ELSE 0

\* A write of x made by the updated hook that notifies a watcher leaves a new
\* flush scheduled: the watcher is in the new queue, waiting is set, a
\* flushSchedulerQueue is pending and no flush is running.
UpdatedSchedules ==
    (UpdatedCalls # {} /\ vm.hooks["updated"] # <<>> /\ subs["x"] # <<>>) =>
        /\ \A i \in 1..Len(subs["x"]) : Count(queue, subs["x"][i]) = 1
        /\ waiting /\ ~flushing /\ pending > 0 /\ pc = "idle"

\* when the updated hook is called the loop has taken every entry of the queue
UpdatedAfterAll ==
    UpdatedCalls # {} => hist.flush.taken = Len(hist.flush.snapshot)

\* C18 as stated: updated hooks are called only once every watcher of the
\* flush has been run and the scheduler state has been reset, one call per
\* queue entry that is vm._watcher and only while the instance is mounted and
\* not destroyed, and a write made by the hook schedules a new flush.
C18_Updated == UpdatedAfterAll /\ UpdatedAfterReset /\ UpdatedSchedules

\* What the end of flushSchedulerQueue gives (C18) apart from the entries the
\* loop has not taken.
C18_Tail == UpdatedAfterReset /\ UpdatedSchedules

\* the case of C18_Tail: the updated hook wrote x after a flush that ran the
\* render watcher, and the render watcher is queued for a new flush
C18_Witness ==
    /\ hist.op = "flushEnd"
    /\ Cardinality(UpdatedCalls) = 1
    /\ vm.hooks["updated"] # <<>>
    /\ RunsOf(vm.renderW) = 1
    /\ queue = <<vm.renderW>>
    /\ pending = 1

(******************************* mounting ***********************************)
\* One instance whose mounted and beforeUpdate hooks do nothing or write x,
\* with a user watcher on x whose callback does nothing or calls $destroy,
\* mounted with a render function that reads x or the sum of x and y.
InitMount ==
    \E hm \in UpdatedHandlers, hu \in UpdatedHandlers :
        Start([NoHooks EXCEPT !["mounted"] = hm, !["beforeUpdate"] = hu])

NextMount ==
    \/ \E cb \in {<<>>, <<DestroyStep>>} : Watch("x", cb, FALSE)
    \/ \E k \in {"x", "sum"} : Mount(k)
    \/ \E p \in {"x", "y"}, v \in Nums : Assign(p, v)
    \/ Destroy
    \/ FlushBegin
    \/ FlushStep
    \/ FlushEnd

SpecMount == InitMount /\ [][NextMount]_vars

\* the names of the hooks called in the task, in order
HookOrder == [n \in 1..Len(hist.hooks) |-> hist.hooks[n].hook]

\* C19: a task that is vm.$mount() calls beforeMount and then mounted and no
\* other hook; beforeMount finds no render watcher, the instance not mounted
\* and no evaluation done; mounted finds the render watcher made, its getter
\* evaluated exactly once, and the instance mounted. The beforeUpdate
\* hook is called only as the first thing of an iteration of the flush loop
\* on the render watcher, and it finds the instance mounted and not
\* destroyed.
C19_Mount ==
    /\ hist.op = "mount" =>
          /\ HookOrder = <<"beforeMount", "mounted">>
          /\ hist.hooks[1].renderW = 0
          /\ ~hist.hooks[1].isMounted
          /\ hist.hooks[1].gets = 0
          /\ hist.hooks[2].renderW = Len(ws)
          /\ hist.hooks[2].isMounted
          /\ hist.hooks[2].gets = 1
          /\ Len(hist.getLog) = 1
          /\ hist.getLog[1].w = Len(ws)
          /\ vm.renderW = Len(ws) /\ vm.isMounted
    /\ \A n \in 1..Len(hist.hooks) :
          hist.hooks[n].hook = "beforeUpdate" =>
              /\ hist.op = "flushStep"
              /\ hist.arg[1] = vm.renderW
              /\ n = 1
              /\ hist.hooks[n].isMounted
              /\ ~hist.hooks[n].isDestroyed

\* C19 witness: the instance was mounted with a mounted hook that wrote x, and
\* the flush that followed called beforeUpdate before it ran the render
\* watcher again.
C19_Witness ==
    /\ hist.op = "flushStep"
    /\ hist.arg[1] = vm.renderW
    /\ vm.hooks["mounted"] # <<>>
    /\ Len(hist.hooks) >= 1
    /\ hist.hooks[1].hook = "beforeUpdate"
    /\ hist.hooks[1].gets = 0
    /\ Len(hist.getLog) = 1

(****************************** destruction *********************************)
\* One instance whose beforeDestroy hook does nothing or writes y, with a
\* sync user watcher on flag whose callback calls $destroy, user watchers on
\* x and one whose getter clears flag, and a render function that reads x;
\* $destroy is called by user code or by the callback.
DestroyWatchers ==
    {<<"flag", <<DestroyStep>>, TRUE>>, <<"x", <<>>, FALSE>>,
     <<"condSelf", <<>>, FALSE>>}

InitDestroy ==
    \E h \in {<<>>, <<ToggleStep("y")>>} :
        Start([NoHooks EXCEPT !["beforeDestroy"] = h])

NextDestroy ==
    \/ \E k \in DestroyWatchers : Watch(k[1], k[2], k[3])
    \/ Mount("x")
    \/ \E p \in {"flag", "x"}, v \in Nums : Assign(p, v)
    \/ \E w \in 1..MaxWatchers : Unwatch(w)
    \/ Destroy
    \/ FlushBegin
    \/ FlushStep
    \/ FlushEnd

SpecDestroy == InitDestroy /\ [][NextDestroy]_vars

\* the call n of a hook in the task is a call of destroyed
DestroyedAt(n) == n \in 1..Len(hist.hooks) /\ hist.hooks[n].hook = "destroyed"

\* The steps of $destroy as its two hooks see them: destroyed is preceded by
\* beforeDestroy, which finds neither flag set and every watcher of
\* vm._watchers active; destroyed finds both flags set, vmCount of the root
\* data one less, and vm._watchers as it was (the watchers were torn down
\* after _isBeingDestroyed was set).
DestroyOrder ==
    \A n \in 1..Len(hist.hooks) : DestroyedAt(n) =>
        /\ hist.hooks[n].isBeingDestroyed
        /\ hist.hooks[n].isDestroyed
        /\ \E m \in 1..(n - 1) :
              /\ hist.hooks[m].hook = "beforeDestroy"
              /\ ~hist.hooks[m].isBeingDestroyed
              /\ ~hist.hooks[m].isDestroyed
              /\ \A i \in 1..Len(hist.hooks[m].watchers) :
                    hist.hooks[m].watchers[i] \in hist.hooks[m].active
              /\ hist.hooks[m].vmCount = hist.hooks[n].vmCount + 1
              /\ hist.hooks[m].watchers = hist.hooks[n].watchers

\* when destroyed is called no watcher is active
DestroyedInactive ==
    \A n \in 1..Len(hist.hooks) : DestroyedAt(n) => hist.hooks[n].active = {}

\* when destroyed is called no Dep holds a watcher in its subs
DestroyedUnsubscribed ==
    \A n \in 1..Len(hist.hooks) : DestroyedAt(n) => hist.hooks[n].subscribed = {}

\* C20 as stated: $destroy runs its steps in the order given, and when the
\* destroyed hook is called every watcher of the instance is inactive and
\* subscribed to no Dep.
C20_Destroy == DestroyOrder /\ DestroyedInactive /\ DestroyedUnsubscribed

(***************************** set and del **********************************)
\* Sync watchers on x and on $data.z; user code calls Vue.set and
\* Vue.delete on the instance and on its root data, adds z to
\* the root data by assignment, and destroys the instance (after which the
\* root data has vmCount 0).
DelTargets ==
    {<<"vm", "z">>, <<"vm", "x">>, <<"root", "z">>, <<"root", "x">>}

NextDel ==
    \/ \E k \in {"x", "dataz"} : Watch(k, <<>>, TRUE)
    \/ \E t \in DelTargets, v \in Nums : VueSet(t[1], t[2], v)
    \/ \E t \in DelTargets : VueDelete(t[1], t[2])
    \/ \E v \in Nums : AssignKey("root", v)
    \/ Destroy

SpecDel == Init /\ [][NextDel]_vars

\* the target of the call was the instance or an object whose Observer had
\* vmCount > 0
Refusing ==
    \/ hist.arg[1] = "vm"
    \/ hist.arg[1] \in {"root", "obj"} /\ hist.pre.vmCount[hist.arg[1]] > 0

\* the target of the call did not have the key
KeyWasAbsent ==
    /\ hist.arg[2] \in {"z", "objk"}
    /\ hist.arg[1] # "vm" => hist.pre.dyn[hist.arg[1]] = "absent"

\* the call changed no property and notified no Dep
NothingDone ==
    /\ data = hist.pre.data
    /\ heap.dyn = hist.pre.dyn
    /\ subs = hist.pre.subs
    /\ hist.notified = <<>>
    /\ hist.updates = <<>>

\* C21: set with a key the target does not have, and del with any key, on the
\* instance or on an object whose Observer has vmCount > 0, change no
\* property and notify no Dep; set returns the value passed in.
C21_Refuse ==
    /\ (hist.op = "set" /\ Refusing /\ KeyWasAbsent) =>
          NothingDone /\ hist.ret = hist.arg[3]
    /\ (hist.op = "del" /\ Refusing) => NothingDone

\* C21 witness: del was called on the root data of a live instance with the
\* key of a property a watcher is subscribed to.
C21_Witness ==
    /\ hist.op = "del"
    /\ hist.arg = <<"root", "x">>
    /\ hist.pre.vmCount["root"] > 0
    /\ subs["x"] # <<>>
    /\ data["x"] = 1


(***************************** observe ***************************************)

\* the values handed to observe: the observed array and object of the root
\* data, a fresh plain object, a non-extensible one and a number
ObserveValues == {REF_LIST, REF_OBJ, REF_ELT, REF_SEALED, 1}

NextObserve ==
    \/ Watch("x", <<>>, TRUE)
    \/ \E v \in ObserveValues : VueObservable(v)
    \/ \E v \in ObserveValues : Assign("x", v)
    \/ \E v \in ObserveValues : VueSet("root", "z", v)
    \/ \E c \in MethodCalls : ArrayMethod(c[1], c[2])

SpecObserve == Init /\ [][NextObserve]_vars

DeepValues == {REF_LIST, REF_SEALED}

\* user code goes on while fewer than MaxStale calls of get() were left with
\* the watcher still on the target stack
Going == Len(targetStack) < MaxStale

NextDeep ==
    \/ Going /\ WatchDeepSync("x", <<>>, TRUE)
    \/ Going /\ \E v \in {REF_LIST, REF_OBJ} : Assign("x", v)
    \/ Going /\ \E v \in DeepValues : VueSet("obj", "objk", v)
    \/ Going /\ \E v \in Nums : AssignKey("obj", v)
    \/ Going /\ ArrayMethod("push", Args(0, 0, <<REF_OBJ>>))
    \/ Going /\ SealedAssign(REF_SEALED)

SpecDeep == Init /\ [][NextDeep]_vars

\* a write that changed the reactive property k of the observed object
WroteK ==
    /\ hist.op = "assignKey"
    /\ hist.arg[1] = "obj"
    /\ hist.pre.dyn["obj"] = "reactive"
    /\ ~StrictEq(hist.arg[2], hist.pre.val)

\* C23: when get() of a deep watcher returns, the watcher is in the subs of
\* the Dep of every reactive property reachable from the value through
\* observed objects and arrays, and a write that changes such a property
\* calls update() on the watcher
C23_Deep ==
    /\ \A i \in 1..Len(hist.deepLog) : hist.deepLog[i].missing = {}
    /\ WroteK => \A w \in SeqToSet(hist.pre.subs["objk"]) :
                    w \in SeqToSet(hist.updates)

\* what holds of C23: the watcher is subscribed to every such Dep when
\* seenObjects was empty as traverse began
C23_Clean ==
    \A i \in 1..Len(hist.deepLog) :
        hist.deepLog[i].stale = {} => hist.deepLog[i].missing = {}

\* what holds of C23: the write calls update() on every watcher in the subs
\* of the Dep of the property
C23_Write ==
    WroteK => \A w \in SeqToSet(hist.pre.subs["objk"]) :
                  w \in SeqToSet(hist.updates)


\* how often the loops of one traverse call were entered for the value v
Entered(t, v) == Cardinality({i \in 1..Len(t.into) : t.into[i] = v})

\* C29: every traverse call returns, for cyclic values and for values that
\* hold objects without an Observer too; it enters its loops at most once for
\* an observed container, and seenObjects is empty when it is left
C29_Traverse ==
    \A i \in 1..Len(hist.travLog) :
        /\ ~hist.travLog[i].threw
        /\ hist.travLog[i].seen = {}
        /\ \A v \in {REF_LIST, REF_OBJ} : Entered(hist.travLog[i], v) <= 1

\* what holds of C29: a call that returns leaves seenObjects empty, no call
\* enters its loops twice for an observed container, and the calls that do
\* not return are those that reach the object without an Observer whose key
\* holds the object itself
C29_Observed ==
    \A i \in 1..Len(hist.travLog) :
        /\ ~hist.travLog[i].threw => hist.travLog[i].seen = {}
        /\ \A v \in {REF_LIST, REF_OBJ} : Entered(hist.travLog[i], v) <= 1
        /\ hist.travLog[i].threw =>
             /\ heap.sealedK = REF_SEALED
             /\ Entered(hist.travLog[i], REF_SEALED) = StackLimit - Len(SelectSeq(hist.travLog[i].into, LAMBDA v : v # REF_SEALED))


(************************ errors in user watchers ****************************)

\* user watchers whose getter throws after reading x, throws while flag is
\* set, or whose callback throws, and one that does not throw
ErrorWatchers ==
    {<<"boom", <<>>>>, <<"condThrow", <<>>>>, <<"x", <<ThrowStep>>>>,
     <<"y", <<>>>>}

NextError ==
    \/ \E k \in ErrorWatchers, sync \in BOOLEAN : Watch(k[1], k[2], sync)
    \/ \E p \in {"x", "y", "flag"}, v \in Nums : Assign(p, v)
    \/ FlushBegin
    \/ FlushStep
    \/ FlushEnd

SpecError == Init /\ [][NextError]_vars

\* the watchers whose getter or callback threw in the task
Threw == {hist.handled[i].w : i \in 1..Len(hist.handled)}

\* the task is an assignment that changed the property
Wrote == hist.op = "assign" /\ ~StrictEq(hist.arg[2], hist.pre.val)

\* C24: what the getter or the callback of a user watcher throws is handed to
\* handleError and leaves neither get() nor run(): no task ends by the
\* exception, the flush goes on with the watchers behind and runs every one
\* it began with, and the watcher stays active and subscribed to the Deps its
\* getter read, whose next notification calls update() on it and puts it in
\* the queue unless it is sync and was run at once
C24_Trapped ==
    /\ ~hist.escaped
    /\ hist.op = "flushStep" => ~hist.flush.aborted
    /\ hist.op = "flushEnd" =>
         \A w \in hist.flush.init \cup hist.flush.enq : RunsOf(w) >= 1
    /\ \A w \in Threw :
         /\ ws[w].active
         /\ \A d \in hist.lastRead[w] : w \in SeqToSet(subs[d])
    /\ Wrote =>
         \A w \in SeqToSet(hist.pre.subs) :
             /\ w \in SeqToSet(hist.updates)
             /\ IF ws[w].sync
                THEN \E i \in 1..Len(hist.getLog) : hist.getLog[i].w = w
                ELSE w \in SeqToSet(queue)
    /\ hist.op = "flushStep" /\ hist.pre.active =>
         \E i \in 1..Len(hist.getLog) : hist.getLog[i].w = hist.arg[1]

\* a flush ran a watcher whose getter threw once more, after an earlier flush
\* in which it threw, and went on with the watcher behind it
C24_Witness ==
    /\ hist.op = "flushStep"
    /\ hist.arg[1] = 2
    /\ Len(ws) = 2
    /\ ws[1].getter = "boom"
    /\ hist.flush.init = {1, 2}
    /\ RunsOf(1) = 1
    /\ hist.errors >= 2
    /\ ws[1].active
    /\ 1 \in SeqToSet(subs["x"])


(***************************** render errors *********************************)

\* new Vue(options) with or without a renderError option, which returns a
\* VNode or throws, in a development or a production build
InitRender ==
    \E re \in {"none", "vnode", "throws"}, production \in BOOLEAN :
        StartWith(NoHooks, re, production)

\* render functions that throw while flag is set, always, or never
NextRender ==
    \/ \E k \in {"condThrow", "boom", "y"} : Mount(k)
    \/ Watch("flag", <<>>, FALSE)
    \/ \E p \in {"x", "y", "flag"}, v \in Nums : Assign(p, v)
    \/ FlushBegin
    \/ FlushStep
    \/ FlushEnd

SpecRender == InitRender /\ [][NextRender]_vars

\* the call of _render that is hist.renders[i] handed the error to handleError
Reported(i) ==
    \E j \in 1..Len(hist.handled) :
        hist.handled[j] = [w |-> hist.renders[i].w, info |-> "render"]

\* the VNode vm._vnode stands for: the tree rendered before, or an empty VNode
PrevOrEmpty(r) == IF r.prev = NoVNode THEN createEmptyVNode ELSE r.prev

\* C25 as stated: a call of _render whose render function threw does not
\* throw, hands the error to handleError, returns vm._vnode if there is one
\* and an empty VNode otherwise, and leaves currentRenderingInstance null
C25_Original ==
    /\ ~vm.rendering
    /\ \A i \in 1..Len(hist.renders) :
         /\ ~hist.renders[i].rendering
         /\ hist.renders[i].threw =>
              /\ ~hist.renders[i].escaped
              /\ Reported(i)
              /\ hist.renders[i].vnode = PrevOrEmpty(hist.renders[i])

\* the renderError option gives the VNode: it is there, does not throw, and
\* the build is not a production build
ErrorRendered == vm.renderError = "vnode" /\ ~vm.production

\* C25: a call of _render whose render function threw does not throw, hands
\* the error to handleError, and leaves currentRenderingInstance null; it
\* returns what the renderError option returned if the instance has one that
\* does not throw and the build is not a production build, and otherwise
\* vm._vnode if there is one and an empty VNode if there is none
C25_Render ==
    /\ ~vm.rendering
    /\ \A i \in 1..Len(hist.renders) :
         /\ ~hist.renders[i].rendering
         /\ hist.renders[i].threw =>
              /\ ~hist.renders[i].escaped
              /\ Reported(i)
              /\ hist.renders[i].vnode =
                   IF ErrorRendered THEN ErrorVNode
                   ELSE PrevOrEmpty(hist.renders[i])

\* a render function threw in a flush after a render that made a VNode, and
\* the renderError option gave the VNode that _render returned
C25_Witness ==
    /\ hist.op = "flushStep"
    /\ Len(hist.renders) = 1
    /\ hist.renders[1].threw
    /\ hist.renders[1].prev.kind = "node"
    /\ hist.renders[1].vnode = ErrorVNode
    /\ vm.vnode = ErrorVNode
    /\ ErrorRendered


(************************** instance initialization **************************)

NextInit ==
    \/ \E options \in [OptionKeys -> BOOLEAN] : NewVue(options)
    \/ InstMount

SpecInit == Init /\ [][NextInit]_vars

\* the place of a phase in the order of the phases
Rank(phase) ==
    CASE phase = "beforeCreate" -> 1
      [] phase = "inject" -> 2
      [] phase = "props" -> 3
      [] phase = "methods" -> 4
      [] phase = "data" -> 5
      [] phase = "computed" -> 6
      [] phase = "watch" -> 7
      [] phase = "provide" -> 8
      [] phase = "created" -> 9
      [] phase = "mount" -> 10

\* the phases that began, in order
Phases == [i \in 1..Len(vm.inst.log) |-> vm.inst.log[i].phase]

\* what the phase found when it began
Found(phase) ==
    CHOOSE r \in SeqToSet(vm.inst.log) : r.phase = phase

\* the phases are in the order beforeCreate, inject, props, methods, data,
\* computed, watch, provide, created, mount; those of the options given
\* and no other took place; mount is part of _init when el was given
InOrder ==
    /\ \A i, j \in 1..Len(Phases) : i < j => Rank(Phases[i]) < Rank(Phases[j])
    /\ {"beforeCreate", "inject", "data", "created"} \subseteq SeqToSet(Phases)
    /\ \A k \in {"props", "methods", "computed", "watch", "provide"} :
         k \in SeqToSet(Phases) <=> vm.inst.options[k]
    /\ vm.inst.options["el"] => "mount" \in SeqToSet(Phases)
    /\ "mount" \in SeqToSet(Phases) /\ vm.inst.options["watch"] =>
         "user" \in SeqToSet(Found("mount").watchers)
    /\ \A i \in 1..Len(vm.inst.log) :
         "render" \notin SeqToSet(vm.inst.log[i].watchers)

Keys == {"a", "b", "c", "d"}

\* the arrays of children with keys of Keys, each key at most once
RECURSIVE Arrangements(_)
Arrangements(ks) ==
    {<<>>} \cup UNION {{<<k>> \o t : t \in Arrangements(ks \ {k})} : k \in ks}

NextPatch == \E newCh \in Arrangements(Keys) : Patch(newCh)

SpecPatch == Init /\ [][NextPatch]_vars

\* the calls of node-ops of the task with the name op
OpsNamed(op) == SelectSeq(hist.nodeOps, LAMBDA o : o.op = op)

\* C27: the diff of old children with the keys a, b, c, d against new
\* children d, a, b, c calls insertBefore once, putting the node of d before
\* the node of a, creates and removes no node and leaves the host children in
\* the order d, a, b, c; and every diff leaves the host children in the order
\* of the new children
C27_Reorder ==
    hist.op = "patch" =>
        /\ vm.host = hist.arg[1]
        /\ hist.pre.host = <<"a", "b", "c", "d">>
           /\ hist.arg[1] = <<"d", "a", "b", "c">> =>
             hist.nodeOps = <<[op |-> "insertBefore", node |-> "d", ref |-> "a"]>>

\* the children a, b, c, d were patched to d, a, b, c
C27_Witness ==
    /\ hist.op = "patch"
    /\ hist.pre.host = <<"a", "b", "c", "d">>
    /\ hist.arg[1] = <<"d", "a", "b", "c">>
    /\ vm.host = <<"d", "a", "b", "c">>
    /\ Len(OpsNamed("insertBefore")) = 1
    /\ OpsNamed("createElement") = <<>>
    /\ OpsNamed("removeChild") = <<>>


(************************ C28: nested reporting *****************************)
\* the containers user code stores under x and y, and the elements it pushes
NestedValues == {0, REF_LIST, REF_OBJ}
NestedElems == {REF_OBJ, REF_LIST, REF_ELT}

\* Sync user watchers on x and on x + y; user code assigns numbers and
\* containers to x and y and pushes objects, and the list itself, to the list.
NextNested ==
    \/ \E k \in {"x", "sum"} : Watch(k, <<>>, TRUE)
    \/ \E v \in NestedValues : Assign("x", v)
    \/ \E v \in {0, REF_OBJ} : Assign("y", v)
    \/ \E e \in NestedElems : ArrayMethod("push", Args(0, 0, <<e>>))
    \/ ArrayMethod("pop", Args(0, 0, <<>>))

SpecNested == Init /\ [][NextNested]_vars

\* the properties the getter of watcher w reads
ReadsOf(w) == IF ws[w].getter = "x" THEN {"x"} ELSE {"x", "y"}

\* the Deps watcher w is in the subs of
SubscribedTo(w) == {d \in DOMAIN subs : w \in SeqToSet(subs[d])}

\* the container Deps of the observed elements of the list, the list's own
\* when it holds itself
ElementObs ==
    {ObOf(heap.list[i]) :
        i \in {j \in 1..Len(heap.list) : HasOb(State, heap.list[j])}}

\* the container Deps a read of property p reaches
ContainersOf(p) ==
    IF ~HasOb(State, data[p]) THEN {}
    ELSE {ObOf(data[p])} \cup (IF data[p] = REF_LIST THEN ElementObs ELSE {})

\* the task assigned property p a container other than the one it held
Replaced(p) ==
    /\ hist.op = "assign"
    /\ hist.arg[1] = p
    /\ HasOb([State EXCEPT !.heap.eltOb = TRUE], hist.pre.val)
    /\ HasOb(State, hist.arg[2])
    /\ hist.arg[2] # hist.pre.val

\* the array holds itself
Cyclic == REF_LIST \in SeqToSet(heap.list)

\* C28: a watcher that reads a reactive property holding an observed object or
\* array is subscribed to the property's Dep, to the container's Dep and, for
\* an array, to the container Dep of every observed element, recursively
C28_Nested ==
    \A w \in 1..Len(ws) : ws[w].active =>
        \A p \in ReadsOf(w) : {p} \cup ContainersOf(p) \subseteq SubscribedTo(w)

\* the subscriptions hold while the array does not hold itself
C28_Acyclic == ~Cyclic => C28_Nested

\* the second half of C28: once the property is assigned a different container
\* the watcher is subscribed to the new container's Dep and no longer to the
\* old one's unless it still reads the old container through another property
C28_Replaced ==
    \A w \in 1..Len(ws), p \in {"x", "y"} :
        ws[w].active /\ p \in ReadsOf(w) /\ Replaced(p) /\ ~Cyclic =>
          /\ ObOf(hist.arg[2]) \in SubscribedTo(w)
          /\ ObOf(hist.pre.val) \in SubscribedTo(w) =>
               \E q \in ReadsOf(w) \ {p} : data[q] = hist.pre.val

\* a replaced container stays subscribed exactly when the evaluation still
\* reaches it, through another property or as an element of an array it reads
C28_Dropped ==
    \A w \in 1..Len(ws), p \in {"x", "y"} :
        ws[w].active /\ p \in ReadsOf(w) /\ Replaced(p) /\ ~Cyclic =>
          /\ ObOf(hist.arg[2]) \in SubscribedTo(w)
          /\ ObOf(hist.pre.val) \in SubscribedTo(w) <=>
               \E q \in ReadsOf(w) : ObOf(hist.pre.val) \in ContainersOf(q)

\* a watcher evaluated over an array that holds itself and an object behind
C28_Overflow ==
    /\ Cyclic
    /\ Len(ws) >= 1
    /\ data["x"] = REF_LIST
    /\ Len(heap.list) = 2
    /\ heap.list[2] = REF_OBJ


(************************ C30: the target stack *****************************)
\* the handlers of the mounted hook: none, one that throws, one that writes x
StackHandlers == {<<>>, <<ThrowStep>>, <<ToggleStep("x")>>}

InitStack ==
    \E h \in StackHandlers : Start([NoHooks EXCEPT !["mounted"] = h])

\* Watchers whose getter throws (trapped for a user watcher, thrown on by a
\* computed one) or calls getData, a render watcher with its hooks, a deep
\* watcher over an object that may reach the non-extensible object that holds
\* itself, and the writes that make them run.
NextStack ==
    \/ Going /\ InitComputed("boom")
    \/ Going /\ \E k \in {"condThrow", "child", "childBoom", "useBoom"} :
                    Watch(k, <<>>, TRUE)
    \/ Going /\ WatchDeepSync("x", <<>>, TRUE)
    \/ Going /\ Mount("child")
    \/ Going /\ ReadKey("boom")
    \/ Going /\ \E v \in {0, REF_OBJ} : Assign("x", v)
    \/ Going /\ Assign("y", 1)
    \/ Going /\ VueSet("obj", "objk", REF_SEALED)
    \/ Going /\ SealedAssign(REF_SEALED)
    \/ Going /\ FlushBegin
    \/ Going /\ FlushStep
    \/ Going /\ FlushEnd

SpecStack == InitStack /\ [][NextStack]_vars

\* every call of get(), getData() and callHook() in the task left the stack as
\* it found it
Balanced ==
    \A i \in 1..Len(hist.stackLog) :
        hist.stackLog[i].after = hist.stackLog[i].before

\* a call of traverse in the task was left by an exception
TraverseThrew == \E i \in 1..Len(hist.travLog) : hist.travLog[i].threw

\* C30: Dep.target is the top entry of the target stack and no watcher when
\* the stack is empty; every get(), getData() and callHook() leaves the stack
\* as it found it, also when the getter throws; after a top-level operation
\* no watcher is the active target
C30_Stack ==
    /\ depTarget = TopOf(targetStack)
    /\ Balanced
    /\ targetStack = <<>>
    /\ depTarget = 0

\* Dep.target is the top entry of the target stack
C30_Top ==
    /\ depTarget = TopOf(targetStack)
    /\ \A i \in 1..Len(hist.stackLog) :
         hist.stackLog[i].target = TopOf(hist.stackLog[i].after)

\* unless traverse is left by an exception, every call leaves the stack as it
\* found it, also when the getter or the data function throws
C30_Balanced == ~TraverseThrew => Balanced

\* a task in which traverse is not left by an exception leaves the stack as it
\* was
C30_Kept == [][~TraverseThrew' => targetStack' = targetStack]_vars

\* a getter threw in a get() that left the stack as it found it, with the
\* watcher on the stack in between
C30_Threw ==
    /\ ~TraverseThrew
    /\ \E i \in 1..Len(hist.getLog) : hist.getLog[i].threw
    /\ \E i \in 1..Len(hist.stackLog) : hist.stackLog[i].fn = "getData"
    /\ targetStack = <<>>

\* the deep watcher is left on the stack after the task
C30_Stale ==
    /\ TraverseThrew
    /\ targetStack # <<>>
    /\ depTarget # 0


(************************ C31: shouldObserve ********************************)
\* the props of an instance: one or two of the kinds
PropLists ==
    {<<k>> : k \in PropKinds} \cup {<<"literal", k>> : k \in {"factory", "throws"}}

\* the options of new Vue: props, with or without a parent and injections
ToggleOptions ==
    {[o \in OptionKeys |-> o = "props" \/ (o = "inject" /\ inject)]
         @@ [parent |-> parent, kinds |-> kinds, provided |-> REF_ELT] :
       inject \in BOOLEAN, parent \in BOOLEAN, kinds \in PropLists}

\* Instances are made with props and injections, as root or as child; the
\* parent hands new props to the child; user code calls Vue.observable.
NextToggle ==
    \/ \E options \in ToggleOptions : NewVue(options)
    \/ \E kinds \in PropLists : UpdateChild(kinds)
    \/ VueObservable(REF_ELT)

SpecToggle == Init /\ [][NextToggle]_vars

\* the binding loops in which observation is off
InSection(t) ==
    /\ t.at = "loop"
    /\ t.fn \in {"initInjections", "updateChildComponent"}
         \/ (t.fn = "initProps" /\ ~t.isRoot)

\* C31: shouldObserve is true whenever none of initProps, initInjections and
\* updateChildComponent is executing; it is false throughout their binding
\* loops (initProps: of an instance that is not the root) except inside
\* validateProp's observation of a default value, where it is true; and
\* validateProp leaves shouldObserve as it found it
C31_Bracket ==
    /\ heap.shouldObserve
    /\ \A i \in 1..Len(hist.toggles) :
         /\ InSection(hist.toggles[i]) => ~hist.toggles[i].val
         /\ hist.toggles[i].at = "observe" => hist.toggles[i].val
         /\ hist.toggles[i].at = "exit" =>
              hist.toggles[i].val = hist.toggles[i].entry

\* the loops and validateProp keep to the bracket, whatever throws
C31_Inside ==
    \A i \in 1..Len(hist.toggles) :
        /\ InSection(hist.toggles[i]) => ~hist.toggles[i].val
        /\ hist.toggles[i].at = "observe" => hist.toggles[i].val
        /\ hist.toggles[i].at = "exit" =>
             hist.toggles[i].val = hist.toggles[i].entry

\* shouldObserve is true after every task unless an exception left one
C31_Restored == [][~hist'.escaped /\ heap.shouldObserve => heap'.shouldObserve]_vars

\* a default function threw in the loop of a child instance and observation
\* stays off: Vue.observable leaves the object without an Observer
C31_Stuck ==
    /\ ~heap.shouldObserve
    /\ hist.op = "observable"
    /\ ~heap.eltOb


(************************ C32: vmCount **************************************)
\* the handlers of beforeDestroy and destroyed: none, or one that calls
\* $destroy again
CountHandlers == {<<>>, <<DestroyStep>>}

InitCount ==
    \E b \in CountHandlers, d \in CountHandlers :
        Start([NoHooks EXCEPT !["beforeDestroy"] = b, !["destroyed"] = d])

\* new Vue({data}) over the observed object of the first instance or over an
\* object literal
CountOptions ==
    {[o \in OptionKeys |-> o = "data"] @@ [dataObj |-> v] :
        v \in {REF_OBJ, REF_NEW}}

\* The first instance is destroyed by user code or by the callback of a sync
\* watcher; a second instance is made over data.obj and destroyed, and
\* another once that one is destroyed; set and del are called on both
\* objects.
NextCount32 ==
    \/ Watch("x", <<DestroyStep>>, TRUE)
    \/ \E v \in Nums : Assign("x", v)
    \/ Destroy
    \/ \E options \in CountOptions :
           /\ ~vm.inst.made \/ vm.inst.isBeingDestroyed
           /\ hist.inits["obj"] < MaxInits
           /\ NewVue(options)
    \/ InstDestroy
    \/ \E t \in {"root", "obj"} : VueSet(t, DynCell(t), 1)
    \/ \E t \in {"root", "obj"} : VueDelete(t, DynCell(t))

SpecCount == InitCount /\ [][NextCount32]_vars

\* the instances initialized with the object as root data whose $destroy has
\* not decremented vmCount: the first instance over the root data, the
\* instances made over data.obj, each of which decrements at most once
Live(target) ==
    IF target = "root" THEN (IF hist.decs["root"] = 0 THEN 1 ELSE 0)
    ELSE hist.inits["obj"] - hist.decs["obj"]

\* set or del was called with a key that set would add or del would delete
Asked ==
    \/ hist.op = "set" /\ hist.pre.dyn[hist.arg[1]] = "absent"
    \/ hist.op = "del" /\ hist.pre.dyn[hist.arg[1]] # "absent"

\* C32: vmCount of every Observer is never negative and is the number of
\* instances initialized with the object as root data whose $destroy has not
\* decremented it, so set and del refuse exactly while there is such an
\* instance
C32_Count ==
    /\ \A t \in {"root", "obj"} :
         heap.vmCount[t] >= 0 /\ heap.vmCount[t] = Live(t)
    /\ Asked => (heap.dyn = hist.pre.dyn <=> Live(hist.arg[1]) >= 1)

\* vmCount is kept as long as no instance is destroyed from inside its own
\* beforeDestroy hook
C32_Once ==
    hist.decs["root"] <= 1 =>
        /\ \A t \in {"root", "obj"} :
             heap.vmCount[t] >= 0 /\ heap.vmCount[t] = Live(t)
        /\ Asked => (heap.dyn = hist.pre.dyn <=> Live(hist.arg[1]) >= 1)

\* set and del refuse exactly while vmCount is not 0
C32_Guard == Asked => (heap.dyn = hist.pre.dyn <=> heap.vmCount[hist.arg[1]] # 0)

\* vmCount of the root data is negative and set refuses the key although the
\* only instance is destroyed
C32_Negative ==
    /\ heap.vmCount["root"] < 0
    /\ vm.isDestroyed
    /\ hist.op = "set"
    /\ hist.arg[1] = "root"
    /\ heap.dyn = hist.pre.dyn


(************************ C33: the scheduler after a flush ******************)
\* the user watchers beside the deep one: on y, with and without a callback
\* that throws
StuckWatchers == {<<"y", <<>>>>, <<"y", <<ThrowStep>>>>}

\* Queued user watchers, one of them deep over an object that may reach the
\* non-extensible object that holds itself, and the writes that queue them.
NextStuck ==
    \/ Going /\ \E k \in StuckWatchers : Watch(k[1], k[2], FALSE)
    \/ Going /\ WatchDeep("x", <<>>)
    \/ Going /\ \E v \in {0, REF_OBJ} : Assign("x", v)
    \/ Going /\ \E v \in Nums : Assign("y", v)
    \/ Going /\ VueSet("obj", "objk", REF_SEALED)
    \/ Going /\ SealedAssign(REF_SEALED)
    \/ Going /\ FlushBegin
    \/ Going /\ FlushStep
    \/ Going /\ FlushEnd

SpecStuck == Init /\ [][NextStuck]_vars

\* the task ended a flush: flushSchedulerQueue returned or was left by an
\* exception
FlushOver == hist.op \in {"flushStep", "flushEnd"} /\ pc = "idle"

\* every watcher in the queue has a flush scheduled for it, and every watcher
\* marked in has is in the queue
Scheduled ==
    /\ queue # <<>> => waiting
    /\ waiting => pending > 0 \/ pc = "flush"
    /\ \A w \in DOMAIN has : has[w] = "true" => w \in SeqToSet(queue)

\* C33: whenever a flush ends, by draining the queue, by the loop guard or by
\* an exception of before() or run(), the scheduler is idle again (queue and
\* has empty, waiting and flushing false), so that a later queueWatcher
\* schedules a flush
C33_Idle ==
    /\ FlushOver => SchedulerReset
    /\ pc = "idle" => ~flushing
    /\ Scheduled

\* a flush that no exception leaves ends with the scheduler reset, and a
\* watcher queued while no exception has left a flush has a flush scheduled
C33_Returned ==
    /\ FlushOver /\ ~hist.escaped => SchedulerReset
    /\ ~flushing \/ pc = "flush" => Scheduled

\* once an exception has left a flush the scheduler stays as it is: flushing
\* and waiting remain set and no flush is scheduled
C33_Stays ==
    [][pc = "idle" /\ flushing =>
          /\ flushing' /\ waiting' /\ pending' = pending /\ pc' = "idle"
          /\ \A w \in SeqToSet(queue) : w \in SeqToSet(queue')]_vars

\* a watcher is queued behind a flush that an exception left, with no flush
\* scheduled
C33_Stuck ==
    /\ pc = "idle"
    /\ flushing
    /\ pending = 0
    /\ hist.op = "assign"
    /\ hist.updates # <<>>
    /\ \A i \in 1..Len(hist.updates) : hist.updates[i] \in SeqToSet(queue)


(********************* C34: subscription bookkeeping ************************)
\* the bookkeeping of watcher w: once in the subs of each of its deps, in no
\* other subs, depIds the ids of deps, newDeps and newDepIds empty
Consistent(w) ==
    /\ \A d \in DepIds :
           Count(subs[d], w) = IF d \in SeqToSet(ws[w].deps) THEN 1 ELSE 0
    /\ ws[w].depIds = SeqToSet(ws[w].deps)
    /\ \A i, j \in 1..Len(ws[w].deps) :
           ws[w].deps[i] = ws[w].deps[j] => i = j
    /\ ws[w].newDeps = <<>>
    /\ ws[w].newDepIds = {}

\* C34: whenever no get() of an active watcher w is in progress, w is in the
\* subs of a Dep exactly once if the Dep is in w.deps and not at all
\* otherwise, w.depIds is the set of ids of w.deps, and w.newDeps and
\* w.newDepIds are empty
C34_Subs == \A w \in 1..Len(ws) : ws[w].active => Consistent(w)


\* while no exception of traverse has left a get() (no watcher is left on the
\* target stack between two tasks) the bookkeeping of every active watcher is
\* consistent
C34_Returned == targetStack = <<>> => C34_Subs

\* a get() that traverse left by an exception skipped cleanupDeps: the active
\* watcher is in the subs of the Deps of its newDeps, and its newDepIds are
\* not empty
C34_Skipped ==
    \E w \in 1..Len(ws) :
        /\ ws[w].active
        /\ w \in SeqToSet(targetStack)
        /\ ws[w].newDepIds # {}
        /\ \E d \in ws[w].newDepIds :
               Count(subs[d], w) = 1 /\ d \notin SeqToSet(ws[w].deps)


(************************* C35: $destroy called again ***********************)
\* C35: over any sequence of $destroy calls on one instance, also calls made
\* from inside its beforeDestroy or destroyed hook, each of the two hooks
\* fires exactly once and vmCount of the root data is decremented exactly
\* once
C35_Idempotent ==
    /\ hist.fired.beforeDestroy <= 1
    /\ hist.fired.destroyed <= 1
    /\ hist.decs["root"] <= 1
    /\ vm.isDestroyed =>
           /\ hist.fired.beforeDestroy = 1
           /\ hist.fired.destroyed = 1
           /\ hist.decs["root"] = 1

\* $destroy called again from the destroyed hook, from a watcher callback or
\* by user code does nothing as long as the beforeDestroy hook does not call
\* it: the hooks fire once and vmCount is decremented once
C35_Guarded ==
    vm.hooks["beforeDestroy"] = <<>> =>
        /\ hist.fired.beforeDestroy <= 1
        /\ hist.fired.destroyed <= 1
        /\ hist.decs["root"] <= 1
        /\ vm.isDestroyed =>
               /\ hist.fired.beforeDestroy = 1
               /\ hist.fired.destroyed = 1
               /\ hist.decs["root"] = 1

\* after the first $destroy no call fires a hook or decrements vmCount
C35_After ==
    [][vm.isDestroyed =>
          /\ hist'.fired = hist.fired
          /\ hist'.decs["root"] = hist.decs["root"]]_vars

\* one $destroy call of user code, with a beforeDestroy hook that calls
\* $destroy, fired both hooks and decremented vmCount once per nested call
C35_Repeated ==
    /\ hist.op = "destroy"
    /\ vm.isDestroyed
    /\ hist.fired.beforeDestroy = MaxDepth
    /\ hist.fired.destroyed = MaxDepth
    /\ hist.decs["root"] = MaxDepth
    /\ heap.vmCount["root"] = 1 - MaxDepth


(******************** C36: what a computed property yields ******************)
\* the user watchers that read the computed property sum = x + y: in the
\* getter, in the getter after x, in the callback of a watcher on x
StaleWatchers == {<<"useSum", <<>>>>, <<"xSum", <<>>>>,
                  <<"x", <<ReadStep("sum")>>>>}

\* A component with the computed property sum and one user watcher that reads
\* it, sync or queued; user code reads sum and writes x and y.
NextStale ==
    \/ InitComputed("sum")
    \/ \E k \in StaleWatchers, sync \in BOOLEAN : Watch(k[1], k[2], sync)
    \/ ReadKey("sum")
    \/ \E p \in {"x", "y"}, v \in Nums : Assign(p, v)
    \/ FlushBegin
    \/ FlushStep
    \/ FlushEnd

SpecStale == Init /\ [][NextStale]_vars

\* C36: whenever the getter or the callback of a watcher reads a computed
\* property, also a sync watcher run from inside Dep.notify of an input of the
\* computed property, the value returned is the computed getter applied to
\* the current reactive data
C36_Fresh ==
    \A n \in 1..Len(hist.reads) :
        StrictEq(hist.reads[n].val, hist.reads[n].fresh)

\* the reads made outside Dep.notify are fresh: from a queued watcher in the
\* flush, from the evaluation in a watcher's constructor and from user code
C36_Queued == hist.op # "assign" => C36_Fresh

\* a read returns the cached value exactly when the computed watcher is not
\* dirty, and the value computed by a read is fresh
C36_Cached ==
    \A n \in 1..Len(hist.reads) :
        hist.reads[n].wasDirty =>
            StrictEq(hist.reads[n].val, hist.reads[n].fresh)

\* the callback of a sync watcher on x, run by the notify of x before the
\* update() of the computed watcher, read the sum of the old x
C36_StaleRead ==
    /\ hist.op = "assign"
    /\ hist.arg[1] = "x"
    /\ \E n \in 1..Len(hist.reads) :
           /\ ~hist.reads[n].wasDirty
           /\ hist.reads[n].val # hist.reads[n].fresh
           /\ hist.reads[n].val = Plus(hist.pre.val, data["y"])


(***************** C37: a user watcher whose getter throws ******************)
\* User watchers, sync or queued, with the getters flag ? (x, throw) : y and
\* (x, throw) and a callback that does nothing; user code writes flag, x, y.
NextThrow ==
    \/ \E k \in {"condThrow", "boom"}, sync \in BOOLEAN : Watch(k, <<>>, sync)
    \/ \E p \in Props, v \in Nums : Assign(p, v)
    \/ FlushBegin
    \/ FlushStep
    \/ FlushEnd

SpecThrow == Init /\ [][NextThrow]_vars

\* the calls of get() of watcher w in the task observed in h
GetsOf(h, w) == {n \in 1..Len(h.getLog) : h.getLog[n].w = w}
\* the calls of the callback of watcher w in the task observed in h
CallbacksOf(h, w) == {n \in 1..Len(h.cbLog) : h.cbLog[n].w = w}

\* the task observed in h ran the user watcher w once, and its getter threw
ThrewInRun(h, w) ==
    /\ w \in 1..Len(ws)
    /\ ws[w].user
    /\ Cardinality(GetsOf(h, w)) = 1
    /\ \A n \in GetsOf(h, w) : h.getLog[n].threw

HookNotified ==
    /\ hist.op = "flushStep"
    /\ hist.arg[1] = vm.renderW
    /\ Len(hist.hooks) >= 1
    /\ hist.hooks[1].hook = "beforeUpdate"
    /\ vm.hooks["beforeUpdate"] # <<>>
    /\ vm.renderW \in SeqToSet(hist.updates)

\* what the render function of the kind makes of the data as they are
Rendered(kind) ==
    VNodeOf(IF kind = "x" THEN data["x"] ELSE Plus(data["x"], data["y"]))

\* C38: a write made by the beforeUpdate hook that notifies the render
\* watcher itself does not enqueue it a second time, has[id] being still set
\* while before() executes: the watcher is run once for the queue entry, and
\* the run renders the data written by the hook
C38_Before ==
    HookNotified =>
        /\ \A i \in 1..Len(hist.insLog) : hist.insLog[i].id # vm.renderW
        /\ Count(queue, vm.renderW) <= 1
        /\ HasGet(has, vm.renderW) # "true"
        /\ Cardinality({n \in 1..Len(hist.getLog) :
                            hist.getLog[n].w = vm.renderW}) = 1
        /\ hist.flush.runs[vm.renderW] = 1
        /\ RequeuedOf(vm.renderW) = 0
        /\ ~vm.isDestroyed => vm.vnode = Rendered(ws[vm.renderW].getter)

\* the beforeUpdate hook changed x, which the render function reads, and the
\* one run of the render watcher rendered the new value
C38_Witness ==
    /\ HookNotified
    /\ "x" \in SeqToSet(hist.notified)
    /\ ws[vm.renderW].getter = "x"
    /\ vm.vnode = VNodeOf(data["x"])
    /\ Len(hist.getLog) = 1


(******************* C39: the cache of compileToFunctions *******************)
\* the templates: one that begins with the string of the delimiters, what is
\* left of it without them, and that with a leading blank
Templates39 == {<<"p">>, <<" ", "p">>, <<"a", ",", "b", "p">>}

\* the options of a request: no delimiters or ["a", "b"], comments or not
CompileOptions ==
    {[delimiters |-> d, comments |-> c] :
        d \in {NoDelimiters, <<<<"a">>, <<"b">>>>}, c \in BOOLEAN}

\* compileToFunctions(template, options) called by $mount
CompileToFunctions(template, options) ==
    /\ Idle
    /\ Commit(compileToFunctions(Begin("compile", <<template, options>>),
                                 template, options))

NextCache ==
    \E template \in Templates39, options \in CompileOptions :
        CompileToFunctions(template, options)

SpecCache == Init /\ [][NextCache]_vars

\* what a fresh compile of the template with the options produces
FreshCompile(template, options) ==
    [template |-> Trim(template), options |-> options]

\* the number of calls of compile with the template and the delimiters
CompilesOf(template, delimiters) ==
    HasCount(hist.compiled, [template |-> template,
                             options |-> [delimiters |-> delimiters,
                                          comments |-> TRUE]])
    + HasCount(hist.compiled, [template |-> template,
                               options |-> [delimiters |-> delimiters,
                                            comments |-> FALSE]])

\* C39: the result of every request (template, options) is what a fresh
\* compile of that template with those options produces; a cached entry is
\* served only to a request with the same template and the same delimiters
\* as the request it was stored for; compile is invoked at most once per
\* (template, delimiters) pair
C39_Transparent ==
    /\ hist.op = "compile" =>
          /\ hist.served[1].res = FreshCompile(hist.arg[1], hist.arg[2])
          /\ hist.served[1].hit =>
                 /\ hist.served[1].template = hist.arg[1]
                 /\ hist.served[1].options.delimiters = hist.arg[2].delimiters
    /\ \A t \in Templates39, o \in CompileOptions :
           CompilesOf(t, o.delimiters) <= 1

\* a cached entry is served exactly to the requests with the key of the
\* request it was stored for, the result is what compile produced for that
\* request, and compile is invoked at most once per key, so at most once per
\* (template, delimiters) pair
C39_Key ==
    /\ hist.op = "compile" =>
          /\ CacheKey(hist.served[1].template, hist.served[1].options)
                 = CacheKey(hist.arg[1], hist.arg[2])
          /\ hist.served[1].res = FreshCompile(hist.served[1].template,
                                               hist.served[1].options)
          /\ heap.cache[CacheKey(hist.arg[1], hist.arg[2])] = hist.served[1].res
    /\ \A r \in DOMAIN hist.compiled :
           /\ hist.compiled[r] = 1
           /\ \A q \in DOMAIN hist.compiled :
                  CacheKey(q.template, q.options) = CacheKey(r.template, r.options)
                  => q = r
    /\ \A t \in Templates39, o \in CompileOptions :
           CompilesOf(t, o.delimiters) <= 1

\* a request without delimiters is served the entry stored for another
\* template compiled with delimiters
C39_Collision ==
    /\ hist.op = "compile"
    /\ hist.served[1].hit
    /\ hist.arg[2].delimiters = NoDelimiters
    /\ hist.served[1].options.delimiters # NoDelimiters
    /\ hist.served[1].template # hist.arg[1]

\* a request is served the entry stored for the same template and delimiters
\* and another value of the comments option
C39_Options ==
    /\ hist.op = "compile"
    /\ hist.served[1].hit
    /\ hist.served[1].template = hist.arg[1]
    /\ hist.served[1].options.delimiters = hist.arg[2].delimiters
    /\ hist.served[1].options.comments # hist.arg[2].comments


(********************** C40: add and remove calls ***************************)
\* the calls of updateListeners the model follows
MaxCalls == 4

\* what the caller puts under a name of on: nothing, undefined, a function,
\* or what oldOn has under the name
Given == {"absent", "undefined", "f1", "f2", "same"}

\* the on object made of the choices g
OnOf(g) ==
    [name \in {n \in DOMAIN g : g[n] # "absent"
                                /\ ~(g[n] = "same" /\ n \notin DOMAIN heap.events.on)} |->
        CASE g[name] = "undefined" -> UNDEF
          [] g[name] = "f1" -> 1
          [] g[name] = "f2" -> 2
          [] OTHER -> heap.events.on[name]]

\* updateListeners(on, oldOn, ...) with the on of the previous call as oldOn
UpdateListeners(g) ==
    /\ Idle
    /\ hist.listen.calls < MaxCalls
    /\ Commit(updateListeners(BeginWith("listeners", <<OnOf(g)>>,
                                        [on |-> heap.events.on,
                                         invokers |-> heap.events.invokers]),
                              OnOf(g)))

NextListen ==
    \E g \in [SeqToSet(EventKeys) -> Given] : UpdateListeners(g)

SpecListen == Init /\ [][NextListen]_vars

\* the handlers attached under the name
AttachedTo(name) ==
    IF name \in DOMAIN heap.events.attached THEN heap.events.attached[name]
    ELSE <<>>

\* add calls minus remove calls for the name
Balance(name) ==
    HasCount(hist.listen.adds, name) - HasCount(hist.listen.removes, name)

\* the calls of add and remove made for the name by the last call
CallsFor(name) ==
    {i \in 1..Len(hist.listen.log) : hist.listen.log[i].key = name}

\* the last call replaced the handler of the attached name
Replaced40(name) ==
    /\ hist.op = "listeners"
    /\ HandlerOf(hist.pre.on, name) # UNDEF
    /\ HandlerOf(hist.arg[1], name) # UNDEF
    /\ HandlerOf(hist.arg[1], name) # HandlerOf(hist.pre.on, name)

\* C40: over any sequence of updateListeners calls, each with the on of the
\* previous call as oldOn, for every name add calls minus remove calls is 1
\* if the current on has a defined handler under the name and 0 otherwise;
\* replacing the handler of an attached name calls neither add nor remove,
\* and the attached invoker then invokes the new handler
C40_Balance ==
    \A name \in SeqToSet(EventKeys) :
        /\ Balance(name) =
               IF HandlerOf(heap.events.on, name) # UNDEF THEN 1 ELSE 0
        /\ Replaced40(name) =>
               /\ CallsFor(name) = {}
               /\ AttachedTo(name) = <<HandlerOf(hist.pre.on, name)>>
               /\ FnsOf([heap |-> heap], HandlerOf(hist.pre.on, name))
                      = HandlerOf(hist.arg[1], name)

\* what is attached is right: under every name the invoker of on is attached,
\* once, if on has a defined handler there, and nothing otherwise; add is
\* called for a name exactly when it gets a defined handler and had none, and
\* every remove call beyond the add calls was given the handler undefined
C40_Attached ==
    \A name \in SeqToSet(EventKeys) :
        /\ AttachedTo(name) =
               IF HandlerOf(heap.events.on, name) # UNDEF
               THEN <<heap.events.on[name]>> ELSE <<>>
        /\ HandlerOf(heap.events.on, name) # UNDEF =>
               IsInvoker(heap.events.on[name])
        /\ Balance(name) <=
               IF HandlerOf(heap.events.on, name) # UNDEF THEN 1 ELSE 0
        /\ \A i \in CallsFor(name) :
               IF hist.listen.log[i].call = "add"
               THEN /\ HandlerOf(hist.pre.on, name) = UNDEF
                    /\ hist.listen.log[i].handler = heap.events.on[name]
               ELSE /\ hist.listen.log[i].handler = HandlerOf(hist.pre.on, name)
                    /\ HandlerOf(heap.events.on, name) = UNDEF
        /\ Replaced40(name) =>
               /\ CallsFor(name) = {}
               /\ FnsOf([heap |-> heap], HandlerOf(hist.pre.on, name))
                      = HandlerOf(hist.arg[1], name)

\* remove was called for a name that add was never called for: oldOn had the
\* name with the handler undefined
C40_Unmatched ==
    \E name \in SeqToSet(EventKeys) :
        /\ hist.op = "listeners"
        /\ name \in DOMAIN hist.pre.on
        /\ hist.pre.on[name] = UNDEF
        /\ HasCount(hist.listen.adds, name) = 0
        /\ Balance(name) < 0
        /\ \E i \in CallsFor(name) :
               /\ hist.listen.log[i].call = "remove"
               /\ hist.listen.log[i].handler = UNDEF

\* the handler of an attached name was replaced
C40_Swapped ==
    \E name \in SeqToSet(EventKeys) :
        /\ Replaced40(name)
        /\ HandlerOf(hist.arg[1], name) = 2
        /\ hist.pre.invokers[HandlerOf(hist.pre.on, name) - InvokerBase] = 1
        /\ FnsOf([heap |-> heap], heap.events.on[name]) = 2

====
